---- MODULE Spec2Model ----
(***************************************************************************)
(* Shift lifecycle, claim subsystem, invoice generator and auto-completion *)
(* sweep of the vework backend (routes/shifts.ts, routes/applications.ts,  *)
(* routes/employee.ts, routes/admin.ts, routes/invoices.ts,                *)
(* jobs/autoCompleteShifts.ts).                                            *)
(*                                                                         *)
(* Money is kept in pence, instants in minutes since the model's epoch, a  *)
(* time of day "HH:MM" as the pair <<HH, MM>>, a calendar date as its day  *)
(* number.                                                                 *)
(***************************************************************************)
EXTENDS Integers, Sequences, FiniteSets, TLC

VARIABLES
    shifts,        \* Shift collection: shift id -> document
    applications,  \* Application collection: sequence of documents
    invoices,      \* Invoice collection: set of documents
    now,           \* wall clock (minutes)
    reqs,          \* in-flight direct-claim requests (between awaits)
    sweeps,        \* in-flight runs of runAutoCompleteShifts
    failures,      \* transient storage errors injected so far
    runs,          \* completed sweep runs (saturating)
    config,        \* PlatformConfig document {key: 'platform'}, defaults filled in
    payments,      \* EmployeeWeekPayment collection: set of documents
    posted,        \* history: id and fee of every shift ever stored
    quote,         \* arguments and result of the last calculateShiftCost call
    limits,        \* RateLimit collection: key -> document
    calls,         \* in-flight checkRateLimit calls (between awaits)
    grants         \* history: calls answered allowed, per key and UTC day

vars == <<shifts, applications, invoices, now, reqs, sweeps, failures, runs,
         config, payments, posted, quote, limits, calls, grants>>

----------------------------------------------------------------------------
(* Bounds of the model *)

MaxInFlight == 2
MaxRunners == 2
MaxFailures == 2
MaxRuns == 2

ShiftIds == {"s1", "s2"}
Employees == {"e1", "e2"}
OwnerCafe == "c1"
Cafes == {"c1", "c2"}
ReqIds == 1..MaxInFlight
Runners == 1..MaxRunners
Millis == {1, 2}

Undefined == -1

MaxCallers == 2
Callers == 1..MaxCallers
Keys == {"k1", "k2"}

\* Instants the clock visits: creation time, 25 hours, 24 hours and a minute,
\* and 24 hours before the first shift's start, inside the last 24 hours,
\* after the first shift's end, after the second's end.
TimePoints == {0, 1920, 1979, 1980, 2000, 2820, 3600, 3660, 3840, 6540, 6599, 6600}

\* UTC days of those instants (1440 minutes a day)
UTCDays == {t \div 1440 : t \in TimePoints}

\* Request bodies of POST /api/shifts used by the model (one per shift id).
ShiftPlan(s) ==
    IF s = "s1" THEN [date |-> 2, startTime |-> <<9, 0>>, endTime |-> <<13, 0>>]
    ELSE IF s = "s2" THEN [date |-> 2, startTime |-> <<12, 0>>, endTime |-> <<16, 0>>]
    ELSE IF s = "s3" THEN [date |-> 2, startTime |-> <<13, 0>>, endTime |-> <<17, 0>>]
    ELSE [date |-> 3, startTime |-> <<9, 0>>, endTime |-> <<13, 0>>]

----------------------------------------------------------------------------
(* Platform configuration defaults (pence, hours) *)

minimumHoursBeforeShift == 3
basePriceTier3to12 == 1700
basePriceTier12to24 == 1600
basePriceTier24Plus == 1400
platformFeePerShift == 1000
freeShiftsPerCafe == 2

\* the values the handlers read when no PlatformConfig document is stored
DefaultConfig ==
    [minimumHoursBeforeShift |-> minimumHoursBeforeShift,
     basePriceTier3to12 |-> basePriceTier3to12,
     basePriceTier12to24 |-> basePriceTier12to24,
     basePriceTier24Plus |-> basePriceTier24Plus,
     platformFeePerShift |-> platformFeePerShift,
     freeShiftsPerCafe |-> freeShiftsPerCafe]
PAYMENT_WINDOW_HOURS == 48
PENALTY_PERCENTAGE == 50
EMPLOYEE_PENALTY_PERCENTAGE == 50

----------------------------------------------------------------------------
(* Pure helpers *)

\* "HH:MM".split(':').map(Number) -> h * 60 + m
ToMinutes(t) == t[1] * 60 + t[2]

\* new Date(date); setHours(h, m, 0, 0)
DateTime(date, t) == date * 1440 + ToMinutes(t)

\* date-fns differenceInHours(a, b): whole hours, truncated toward zero
differenceInHours(a, b) ==
    IF a >= b THEN (a - b) \div 60 ELSE -((b - a) \div 60)

\* utils/calculateShiftCost.ts getHoursFromShift, in minutes (hours * 60)
getMinutesFromShift(startTime, endTime) == ToMinutes(endTime) - ToMinutes(startTime)

\* Math.round(x) for x = num / den, den > 0 (half rounds up)
RoundDiv(num, den) == (2 * num + den) \div (2 * den)

\* utils/calculateShiftCost.ts calculatePenalty
calculatePenalty(totalCost, penaltyPercentage) ==
    RoundDiv(totalCost * penaltyPercentage, 100)

\* calculateShiftCostWithFixedFee(startTime, endTime, rate, n, fee)
calculateShiftCostWithFixedFee(startTime, endTime, rate, n, fee) ==
    LET base == RoundDiv(getMinutesFromShift(startTime, endTime) * rate * n, 60)
    IN  [baseAmount |-> base, totalCost |-> base + fee]

\* an overlap test that counts touching windows
shiftsOverlapInclusive(date1, startTime1, endTime1, date2, startTime2, endTime2) ==
    IF date1 # date2 THEN FALSE
    ELSE ToMinutes(startTime1) <= ToMinutes(endTime2)
         /\ ToMinutes(endTime1) >= ToMinutes(startTime2)

\* utils/shiftConflict.ts shiftsOverlap
shiftsOverlap(date1, startTime1, endTime1, date2, startTime2, endTime2) ==
    IF date1 # date2 THEN FALSE
    ELSE ToMinutes(startTime1) < ToMinutes(endTime2)
         /\ ToMinutes(endTime1) > ToMinutes(startTime2)

\* jobs/autoCompleteShifts.ts isShiftEnded
isShiftEnded(doc, t) == DateTime(doc.date, doc.endTime) <= t

Contains(seq, x) == \E i \in 1..Len(seq) : seq[i] = x

\* Array.prototype.findIndex; 0 stands for -1
FindIndex(seq, x) ==
    IF Contains(seq, x) THEN CHOOSE i \in 1..Len(seq) :
                                 seq[i] = x /\ \A j \in 1..(i - 1) : seq[j] # x
    ELSE 0

\* Array.prototype.splice(i, 1)
Splice(seq, i) == SubSeq(seq, 1, i - 1) \o SubSeq(seq, i + 1, Len(seq))

----------------------------------------------------------------------------
(* Initial state: empty collections, nothing in flight *)

IdleReq == [pc |-> "idle", op |-> "none", employee |-> "none", shift |-> "none",
            snap |-> <<>>, stale |-> FALSE, resp |-> "none", app |-> 0]
NoQuote == [args |-> <<>>, result |-> <<>>]
NoLimits == [k \in {} |-> 0]
IdleCall == [pc |-> "idle", key |-> "none", doc |-> <<>>, at |-> 0, result |-> <<>>]
NoGrants == [g \in Keys \X UTCDays |-> 0]
IdleSweep == [pc |-> "idle", list |-> <<>>, idx |-> 0, ms |-> 0, visited |-> {}, failed |-> {}]

Init ==
    /\ shifts = [s \in {} |-> 0]
    /\ applications = <<>>
    /\ invoices = {}
    /\ now = 0
    /\ reqs = [q \in ReqIds |-> IdleReq]
    /\ sweeps = [r \in Runners |-> IdleSweep]
    /\ failures = 0
    /\ runs = 0
    /\ config = DefaultConfig
    /\ payments = {}
    /\ posted = {}
    /\ quote = NoQuote
    /\ limits = NoLimits
    /\ calls = [c \in Callers |-> IdleCall]
    /\ grants = NoGrants

\* Time passes.
Tick(t) ==
    /\ t \in TimePoints
    /\ t > now
    /\ now' = t
    /\ UNCHANGED <<shifts, applications, invoices, reqs, sweeps, failures, runs, config, payments, posted, quote, limits, calls, grants>>

----------------------------------------------------------------------------
(* POST /api/shifts *)

TierBasePrice(minutesFromNow) ==
    IF minutesFromNow >= 24 * 60 THEN config.basePriceTier24Plus
    ELSE IF minutesFromNow >= 12 * 60 THEN config.basePriceTier12to24
    ELSE config.basePriceTier3to12

NewShift(cafe, plan, n, rate, fee, t) ==
    [cafe |-> cafe, date |-> plan.date, startTime |-> plan.startTime,
     endTime |-> plan.endTime, requiredEmployees |-> n,
     status |-> "pending_approval", acceptedBy |-> <<>>, blockedEmployees |-> <<>>,
     baseHourlyRate |-> rate, employeeHourlyRate |-> Undefined,
     platformFee |-> fee,
     totalCost |-> calculateShiftCostWithFixedFee(plan.startTime, plan.endTime,
                                                  rate, n, fee).totalCost,
     penaltyApplied |-> FALSE, penaltyAmount |-> 0,
     employeePenaltyApplied |-> FALSE, employeePenaltyAmount |-> 0,
     paymentProof |-> FALSE, createdAt |-> t,
     visibility |-> "unset", visibleToEmployees |-> {}]

\* ids are never reused: a deleted shift's id does not come back
PostedIds == {p.id : p \in posted}
History(all) == {[id |-> s, platformFee |-> all[s].platformFee] : s \in DOMAIN all}

\* the answer of the handler: "201" or the message of the rejection
\* mutation of the lead-time check: the default of 3 hours whatever the
\* stored configuration says
CreateShiftResponseFixedLead(s, clientHourlyRate, t) ==
    LET plan == ShiftPlan(s)
        minutesFromNow == DateTime(plan.date, plan.startTime) - t
        tierBasePrice == TierBasePrice(minutesFromNow)
        baseHourlyRate == IF clientHourlyRate # Undefined THEN clientHourlyRate
                          ELSE tierBasePrice
    IN  IF minutesFromNow < minimumHoursBeforeShift * 60
        THEN "Shift must start at least N hours from now"
        ELSE IF baseHourlyRate < tierBasePrice
        THEN "Price per hour cannot be less than the tier minimum"
        ELSE "201"

CreateShiftResponse(s, clientHourlyRate, t) ==
    LET plan == ShiftPlan(s)
        minutesFromNow == DateTime(plan.date, plan.startTime) - t
        tierBasePrice == TierBasePrice(minutesFromNow)
        baseHourlyRate == IF clientHourlyRate # Undefined THEN clientHourlyRate
                          ELSE tierBasePrice
    IN  IF minutesFromNow < config.minimumHoursBeforeShift * 60
        THEN "Shift must start at least N hours from now"
        ELSE IF baseHourlyRate < tierBasePrice
        THEN "Price per hour cannot be less than the tier minimum"
        ELSE "201"

CreateShift(s, n, clientHourlyRate) ==
    /\ s \notin PostedIds
    /\ LET plan == ShiftPlan(s)
           tierBasePrice == TierBasePrice(DateTime(plan.date, plan.startTime) - now)
           baseHourlyRate == IF clientHourlyRate # Undefined THEN clientHourlyRate
                             ELSE tierBasePrice
           cafeShiftCount == Cardinality({x \in DOMAIN shifts : shifts[x].cafe = OwnerCafe})
           platformFee == IF cafeShiftCount < config.freeShiftsPerCafe THEN 0
                          ELSE config.platformFeePerShift
       IN  IF CreateShiftResponse(s, clientHourlyRate, now) = "201"
           THEN /\ shifts' = (s :> NewShift(OwnerCafe, plan, n, baseHourlyRate,
                                            platformFee, now)) @@ shifts
                /\ posted' = posted \cup {[id |-> s, platformFee |-> platformFee]}
           ELSE UNCHANGED <<shifts, posted, quote, limits, calls, grants>>
    /\ UNCHANGED <<applications, invoices, now, reqs, sweeps, failures, runs, config,
                   payments, quote, limits, calls, grants>>

----------------------------------------------------------------------------
(* Mongoose document.save(): only the modified paths are written.  A scalar *)
(* path is written with $set.  An array that was only pushed to is written  *)
(* with $push and increments __v without checking it.  An array changed by  *)
(* splice is written whole with $set, under the condition that __v is still *)
(* the version that was read, and increments __v; when the condition fails  *)
(* nothing is written and save() throws VersionError.  `stale` says that    *)
(* __v moved since `snap` was read.                                         *)

ScalarPaths == {"status", "requiredEmployees", "baseHourlyRate", "employeeHourlyRate",
                "totalCost", "penaltyApplied", "penaltyAmount",
                "employeePenaltyApplied", "employeePenaltyAmount", "paymentProof"}
ArrayPaths == {"acceptedBy", "blockedEmployees"}

IsPrefix(a, b) == Len(a) <= Len(b) /\ SubSeq(b, 1, Len(a)) = a

\* paths whose array was changed other than by push
SetArrays(snap, new) == {f \in ArrayPaths : ~IsPrefix(snap[f], new[f])}
\* paths whose array was only pushed to
PushedArrays(snap, new) == {f \in ArrayPaths : IsPrefix(snap[f], new[f]) /\ new[f] # snap[f]}

\* the save increments __v
BumpsVersion(snap, new) == SetArrays(snap, new) # {} \/ PushedArrays(snap, new) # {}

\* the save carries the condition __v = version read
ChecksVersion(snap, new) == SetArrays(snap, new) # {}

SaveThrows(snap, new, stale) == ChecksVersion(snap, new) /\ stale

Save(cur, snap, new, stale) ==
    IF SaveThrows(snap, new, stale) THEN cur
    ELSE [f \in DOMAIN cur |->
            IF f \in ScalarPaths THEN (IF new[f] # snap[f] THEN new[f] ELSE cur[f])
            ELSE IF f \in SetArrays(snap, new) THEN new[f]
            ELSE IF f \in PushedArrays(snap, new)
                 THEN cur[f] \o SubSeq(new[f], Len(snap[f]) + 1, Len(new[f]))
            ELSE cur[f]]

\* A handler that runs without another request in between reads the current
\* document and saves it.
SaveNow(s, new) == [shifts EXCEPT ![s] = Save(shifts[s], shifts[s], new, FALSE)]

HoursUntilShift(doc, t) == differenceInHours(DateTime(doc.date, doc.startTime), t)
IsSameDayPost(doc, t) == differenceInHours(t, doc.createdAt) < 24

----------------------------------------------------------------------------
(* PUT /api/admin/shifts/:id/approve  (routes/admin.ts) *)

AdminApproveResponse(doc) ==
    IF doc.status = "pending_approval" THEN "200"
    ELSE IF doc.status = "completed" THEN "Shift already completed"
    ELSE "Only pending-approval or completed shifts can be approved"

AdminApprove(s, employeeRate) ==
    /\ s \in DOMAIN shifts
    /\ LET doc == shifts[s] IN
       IF AdminApproveResponse(doc) = "200"
       THEN shifts' = SaveNow(s, [doc EXCEPT
                         !.employeeHourlyRate =
                             IF employeeRate # Undefined THEN employeeRate ELSE @,
                         !.status = "open"])
       ELSE UNCHANGED shifts
    /\ UNCHANGED <<applications, invoices, now, reqs, sweeps, failures, runs, config, payments, posted, quote, limits, calls, grants>>

----------------------------------------------------------------------------
(* POST /api/shifts/:id/accept  (direct accept, first come first serve) *)

\* the capacity check with the comparison off by one
AcceptChecksAboveHeadcount(doc, e) ==
    IF doc.status # "open" THEN "Shift is not available"
    ELSE IF Len(doc.acceptedBy) > doc.requiredEmployees THEN "Shift is already full"
    ELSE IF Contains(doc.acceptedBy, e) THEN "You have already accepted this shift"
    ELSE "ok"

\* checks made on the document returned by findById
AcceptChecks(doc, e) ==
    IF doc.status # "open" THEN "Shift is not available"
    ELSE IF Len(doc.acceptedBy) >= doc.requiredEmployees THEN "Shift is already full"
    ELSE IF Contains(doc.acceptedBy, e) THEN "You have already accepted this shift"
    ELSE "ok"

\* Shift.find({acceptedBy: e, status in [open, accepted], _id != s}) and the
\* overlap loop over its result
AcceptConflict(all, s, doc, e) ==
    \E x \in DOMAIN all \ {s} :
        /\ Contains(all[x].acceptedBy, e)
        /\ all[x].status \in {"open", "accepted"}
        /\ shiftsOverlap(all[x].date, all[x].startTime, all[x].endTime,
                         doc.date, doc.startTime, doc.endTime)

\* push the claimant, flip the status when the headcount is reached
AcceptApply(doc, e) ==
    LET pushed == Append(doc.acceptedBy, e) IN
    [doc EXCEPT !.acceptedBy = pushed,
                !.status = IF Len(pushed) >= doc.requiredEmployees THEN "accepted" ELSE @]

AcceptResponse(all, s, e) ==
    IF AcceptChecks(all[s], e) # "ok" THEN AcceptChecks(all[s], e)
    ELSE IF AcceptConflict(all, s, all[s], e)
    THEN "You have a conflict with an already accepted shift"
    ELSE "200"

Accept(e, s) ==
    /\ s \in DOMAIN shifts
    /\ IF AcceptResponse(shifts, s, e) = "200"
       THEN shifts' = SaveNow(s, AcceptApply(shifts[s], e))
       ELSE UNCHANGED shifts
    /\ UNCHANGED <<applications, invoices, now, reqs, sweeps, failures, runs, config, payments, posted, quote, limits, calls, grants>>

----------------------------------------------------------------------------
(* POST /api/shifts/:id/reject  (an employee declines a shift they hold) *)

EmployeeRejectApply(doc, e) ==
    LET rest == Splice(doc.acceptedBy, FindIndex(doc.acceptedBy, e)) IN
    [doc EXCEPT !.acceptedBy = rest,
                !.status = IF doc.status = "accepted" /\ Len(rest) < doc.requiredEmployees
                           THEN "open" ELSE @]

EmployeeRejectResponse(doc, e) ==
    IF FindIndex(doc.acceptedBy, e) = 0 THEN "You have not accepted this shift" ELSE "200"

EmployeeReject(e, s) ==
    /\ s \in DOMAIN shifts
    /\ IF EmployeeRejectResponse(shifts[s], e) = "200"
       THEN shifts' = SaveNow(s, EmployeeRejectApply(shifts[s], e))
       ELSE UNCHANGED shifts
    /\ UNCHANGED <<applications, invoices, now, reqs, sweeps, failures, runs, config, payments, posted, quote, limits, calls, grants>>

----------------------------------------------------------------------------
(* POST /api/shifts/:id/cancel *)

EmployeeCancelApply(doc, e, t) ==
    LET hoursUntilShift == HoursUntilShift(doc, t)
        late == hoursUntilShift <= 24 /\ hoursUntilShift > 0 /\ ~IsSameDayPost(doc, t)
        hourlyRate == IF doc.employeeHourlyRate # Undefined THEN doc.employeeHourlyRate
                      ELSE doc.baseHourlyRate
        \* hoursWorked * hourlyRate, then calculatePenalty: rounded once to pence
        employeePenalty == RoundDiv(getMinutesFromShift(doc.startTime, doc.endTime)
                                    * hourlyRate * EMPLOYEE_PENALTY_PERCENTAGE, 60 * 100)
        rest == Splice(doc.acceptedBy, FindIndex(doc.acceptedBy, e))
    IN  [doc EXCEPT !.employeePenaltyApplied = IF late THEN TRUE ELSE @,
                    !.employeePenaltyAmount = IF late THEN employeePenalty ELSE @,
                    !.acceptedBy = rest,
                    !.status = IF Len(rest) = 0 THEN "open"
                               ELSE IF doc.status = "accepted"
                                       /\ Len(rest) < doc.requiredEmployees THEN "open"
                               ELSE @]

EmployeeCancelResponse(doc, e) ==
    IF ~Contains(doc.acceptedBy, e) THEN "You have not accepted this shift" ELSE "200"

EmployeeCancel(e, s) ==
    /\ s \in DOMAIN shifts
    /\ IF EmployeeCancelResponse(shifts[s], e) = "200"
       THEN shifts' = SaveNow(s, EmployeeCancelApply(shifts[s], e, now))
       ELSE UNCHANGED shifts
    /\ UNCHANGED <<applications, invoices, now, reqs, sweeps, failures, runs, config, payments, posted, quote, limits, calls, grants>>

CafeCancelResponse(doc, cafe, t) ==
    IF doc.cafe # cafe THEN "Not authorized"
    ELSE IF HoursUntilShift(doc, t) <= 24
    THEN "Cannot cancel shift with less than 24 hours remaining"
    ELSE "200"

CafeCancel(cafe, s) ==
    /\ s \in DOMAIN shifts
    /\ IF CafeCancelResponse(shifts[s], cafe, now) = "200"
       THEN shifts' = SaveNow(s, [shifts[s] EXCEPT !.status = "cancelled"])
       ELSE UNCHANGED shifts
    /\ UNCHANGED <<applications, invoices, now, reqs, sweeps, failures, runs, config, payments, posted, quote, limits, calls, grants>>

----------------------------------------------------------------------------
(* POST /api/shifts/:id/pause *)

PauseApply(doc, t) ==
    LET late == Len(doc.acceptedBy) > 0 /\ HoursUntilShift(doc, t) <= 24
                /\ ~IsSameDayPost(doc, t)
    IN  [doc EXCEPT !.penaltyAmount = IF late
                                      THEN calculatePenalty(doc.totalCost, PENALTY_PERCENTAGE)
                                      ELSE @,
                    !.penaltyApplied = IF late THEN TRUE ELSE @,
                    !.status = "paused"]

PauseResponse(doc, cafe) == IF doc.cafe # cafe THEN "Not authorized" ELSE "200"

Pause(cafe, s) ==
    /\ s \in DOMAIN shifts
    /\ IF PauseResponse(shifts[s], cafe) = "200"
       THEN shifts' = SaveNow(s, PauseApply(shifts[s], now))
       ELSE UNCHANGED shifts
    /\ UNCHANGED <<applications, invoices, now, reqs, sweeps, failures, runs, config, payments, posted, quote, limits, calls, grants>>

----------------------------------------------------------------------------
(* POST /api/shifts/:id/complete *)

CompleteResponse(doc, cafe, file, t) ==
    LET shiftEndDate == DateTime(doc.date, doc.endTime) IN
    IF doc.cafe # cafe THEN "Not authorized"
    ELSE IF doc.status # "accepted" THEN "Only accepted shifts can be marked complete"
    ELSE IF shiftEndDate > t
    THEN "You can only complete the shift after the shift end time has passed"
    ELSE IF differenceInHours(t, shiftEndDate) > PAYMENT_WINDOW_HOURS
    THEN "Payment window closed"
    ELSE IF ~file THEN "Payment proof is required to complete the shift"
    ELSE "200"

Complete(cafe, s, file) ==
    /\ s \in DOMAIN shifts
    /\ IF CompleteResponse(shifts[s], cafe, file, now) = "200"
       THEN shifts' = SaveNow(s, [shifts[s] EXCEPT !.paymentProof = TRUE,
                                                   !.status = "completed"])
       ELSE UNCHANGED shifts
    /\ UNCHANGED <<applications, invoices, now, reqs, sweeps, failures, runs, config, payments, posted, quote, limits, calls, grants>>

----------------------------------------------------------------------------
(* Application collection helpers *)

AppIds == 1..Len(applications)

\* Application.findOne({shift, employee}); 0 stands for null
FindApplication(apps, s, e) ==
    IF \E i \in 1..Len(apps) : apps[i].shift = s /\ apps[i].employee = e
    THEN CHOOSE i \in 1..Len(apps) :
             /\ apps[i].shift = s /\ apps[i].employee = e
             /\ \A j \in 1..(i - 1) : ~(apps[j].shift = s /\ apps[j].employee = e)
    ELSE 0

\* Application.countDocuments({shift, status})
CountApplications(apps, s, st) ==
    Cardinality({i \in 1..Len(apps) : apps[i].shift = s /\ apps[i].status = st})

\* Application.updateMany({shift: s, status: 'pending', ...}, {status: 'rejected', ...})
RejectPending(apps, s, keep, employees, reason) ==
    [i \in 1..Len(apps) |->
        IF apps[i].shift = s /\ apps[i].status = "pending" /\ i # keep
           /\ apps[i].employee \in employees
        THEN [apps[i] EXCEPT !.status = "rejected", !.rejectionReason = reason]
        ELSE apps[i]]

NewApplication(s, e, st, reason) ==
    [shift |-> s, employee |-> e, status |-> st, rejectionReason |-> reason]

----------------------------------------------------------------------------
(* POST /api/shifts/:id/remove-employee/:employeeId *)

RemoveEmployeeApply(doc, e, block) ==
    LET rest == Splice(doc.acceptedBy, FindIndex(doc.acceptedBy, e))
        reopened == IF Len(rest) < doc.requiredEmployees /\ doc.status = "accepted"
                    THEN "open" ELSE doc.status
    IN  [doc EXCEPT !.acceptedBy = rest,
                    !.blockedEmployees = IF block /\ ~Contains(@, e) THEN Append(@, e) ELSE @,
                    !.status = IF Len(rest) = 0 THEN "open" ELSE reopened]

RemoveEmployeeResponse(doc, cafe, e) ==
    IF doc.cafe # cafe THEN "Not authorized"
    ELSE IF FindIndex(doc.acceptedBy, e) = 0 THEN "Employee is not assigned to this shift"
    ELSE "200"

RemoveEmployee(cafe, s, e, block) ==
    /\ s \in DOMAIN shifts
    /\ IF RemoveEmployeeResponse(shifts[s], cafe, e) = "200"
       THEN /\ applications' = RejectPending(applications, s, 0, {e},
                                   IF block THEN "Employee removed and blocked from this shift"
                                   ELSE "Employee removed from shift")
            /\ shifts' = SaveNow(s, RemoveEmployeeApply(shifts[s], e, block))
       ELSE UNCHANGED <<shifts, applications, config, payments, posted, quote, limits, calls, grants>>
    /\ UNCHANGED <<invoices, now, reqs, sweeps, failures, runs, config, payments, posted, quote, limits, calls, grants>>

----------------------------------------------------------------------------
(* POST /api/employee/:employeeId/shift/:shiftId/reject  (routes/employee.ts) *)

CafeRejectEmployeeApply(doc, e) ==
    LET rest == Splice(doc.acceptedBy, FindIndex(doc.acceptedBy, e))
        reopened == IF Len(rest) < doc.requiredEmployees /\ doc.status = "accepted"
                    THEN "open" ELSE doc.status
    IN  [doc EXCEPT !.acceptedBy = rest,
                    !.blockedEmployees = IF ~Contains(@, e) THEN Append(@, e) ELSE @,
                    !.status = IF Len(rest) = 0 THEN "open" ELSE reopened]

CafeRejectEmployeeResponse(doc, cafe, e) ==
    IF doc.cafe # cafe THEN "Not authorized"
    ELSE IF doc.status = "completed" THEN "Cannot reject employee from completed shift"
    ELSE IF FindIndex(doc.acceptedBy, e) = 0 THEN "Employee is not assigned to this shift"
    ELSE "200"

CafeRejectEmployee(cafe, s, e, reason) ==
    /\ s \in DOMAIN shifts
    /\ LET i == FindApplication(applications, s, e) IN
       IF CafeRejectEmployeeResponse(shifts[s], cafe, e) = "200"
       THEN /\ applications' =
                 IF i # 0
                 THEN [applications EXCEPT ![i].status = "rejected",
                                           ![i].rejectionReason = reason]
                 ELSE Append(applications, NewApplication(s, e, "rejected", reason))
            /\ shifts' = SaveNow(s, CafeRejectEmployeeApply(shifts[s], e))
       ELSE UNCHANGED <<shifts, applications, config, payments, posted, quote, limits, calls, grants>>
    /\ UNCHANGED <<invoices, now, reqs, sweeps, failures, runs, config, payments, posted, quote, limits, calls, grants>>

----------------------------------------------------------------------------
(* routes/applications.ts *)

\* POST /api/applications
ApplyResponse(doc, apps, s, e) ==
    IF doc.status # "open" THEN "Shift is not available for applications"
    ELSE IF Contains(doc.blockedEmployees, e)
    THEN "You have been blocked from applying to this shift"
    ELSE IF FindApplication(apps, s, e) # 0 THEN "You have already applied for this shift"
    ELSE "201"

Apply(e, s) ==
    /\ s \in DOMAIN shifts
    /\ IF ApplyResponse(shifts[s], applications, s, e) = "201"
       THEN applications' = Append(applications, NewApplication(s, e, "pending", "none"))
       ELSE UNCHANGED applications
    /\ UNCHANGED <<shifts, invoices, now, reqs, sweeps, failures, runs, config, payments, posted, quote, limits, calls, grants>>

\* PUT /api/applications/:id/accept
ApplicationAcceptResponse(all, apps, cafe, i) ==
    LET doc == all[apps[i].shift] IN
    IF doc.cafe # cafe THEN "Not authorized"
    ELSE IF apps[i].status # "pending" THEN "Application is not pending"
    ELSE IF CountApplications(apps, apps[i].shift, "accepted") >= doc.requiredEmployees
    THEN "Shift is already full"
    ELSE "200"

ApplicationAcceptApply(doc, e, full) ==
    [doc EXCEPT !.acceptedBy = IF ~Contains(@, e) THEN Append(@, e) ELSE @,
                !.status = IF full THEN "accepted" ELSE @]

ApplicationAccept(cafe, i) ==
    /\ i \in AppIds
    /\ LET app == applications[i]
           s == app.shift
           accepted == [applications EXCEPT ![i].status = "accepted"]
           full == CountApplications(accepted, s, "accepted") >= shifts[s].requiredEmployees
       IN
       IF ApplicationAcceptResponse(shifts, applications, cafe, i) = "200"
       THEN /\ applications' = IF full
                               THEN RejectPending(accepted, s, i, Employees, "Shift is now full")
                               ELSE accepted
            /\ shifts' = SaveNow(s, ApplicationAcceptApply(shifts[s], app.employee, full))
       ELSE UNCHANGED <<shifts, applications, config, payments, posted, quote, limits, calls, grants>>
    /\ UNCHANGED <<invoices, now, reqs, sweeps, failures, runs, config, payments, posted, quote, limits, calls, grants>>

\* PUT /api/applications/:id/reject
ApplicationRejectResponse(all, apps, cafe, i) ==
    IF all[apps[i].shift].cafe # cafe THEN "Not authorized"
    ELSE IF apps[i].status # "pending" THEN "Application is not pending"
    ELSE "200"

ApplicationReject(cafe, i, reason) ==
    /\ i \in AppIds
    /\ IF ApplicationRejectResponse(shifts, applications, cafe, i) = "200"
       THEN applications' = [applications EXCEPT ![i].status = "rejected",
                                                 ![i].rejectionReason = reason]
       ELSE UNCHANGED applications
    /\ UNCHANGED <<shifts, invoices, now, reqs, sweeps, failures, runs, config, payments, posted, quote, limits, calls, grants>>

\* PUT /api/applications/:id/withdraw
WithdrawResponse(apps, e, i) ==
    IF apps[i].employee # e THEN "Not authorized"
    ELSE IF apps[i].status # "pending" THEN "Can only withdraw pending applications"
    ELSE "200"

Withdraw(e, i) ==
    /\ i \in AppIds
    /\ IF WithdrawResponse(applications, e, i) = "200"
       THEN applications' = [applications EXCEPT ![i].status = "withdrawn"]
       ELSE UNCHANGED applications
    /\ UNCHANGED <<shifts, invoices, now, reqs, sweeps, failures, runs, config, payments, posted, quote, limits, calls, grants>>

----------------------------------------------------------------------------
(* PUT /api/shifts/:id  and  PUT /api/admin/shifts/:id *)

MinHourlyRate == 1400

CafeEditResponse(doc, cafe, n, rate) ==
    LET hourlyRate == IF rate # Undefined THEN rate ELSE doc.baseHourlyRate
        requiredEmployees == IF n # Undefined THEN n ELSE doc.requiredEmployees
    IN  IF doc.cafe # cafe THEN "Not authorized"
        ELSE IF doc.status \in {"completed", "cancelled"}
        THEN "Cannot edit completed or cancelled shift"
        ELSE IF hourlyRate < MinHourlyRate THEN "Hourly rate must be at least 14"
        ELSE IF requiredEmployees < Len(doc.acceptedBy)
        THEN "Cannot reduce required employees below current accepted count"
        ELSE "200"

\* findByIdAndUpdate(id, {$set: updates})
EditApply(doc, n, rate) ==
    LET hourlyRate == IF rate # Undefined THEN rate ELSE doc.baseHourlyRate
        requiredEmployees == IF n # Undefined THEN n ELSE doc.requiredEmployees
    IN  [doc EXCEPT !.baseHourlyRate = hourlyRate,
                    !.requiredEmployees = requiredEmployees,
                    !.totalCost = calculateShiftCostWithFixedFee(doc.startTime, doc.endTime,
                                      hourlyRate, requiredEmployees, doc.platformFee).totalCost]

CafeEdit(cafe, s, n, rate) ==
    /\ s \in DOMAIN shifts
    /\ IF CafeEditResponse(shifts[s], cafe, n, rate) = "200"
       THEN shifts' = [shifts EXCEPT ![s] = EditApply(@, n, rate)]
       ELSE UNCHANGED shifts
    /\ UNCHANGED <<applications, invoices, now, reqs, sweeps, failures, runs, config, payments, posted, quote, limits, calls, grants>>

AdminEditResponse(doc) ==
    IF doc.status \in {"completed", "cancelled"}
    THEN "Cannot edit completed or cancelled shift" ELSE "200"

AdminEdit(s, n, rate) ==
    /\ s \in DOMAIN shifts
    /\ IF AdminEditResponse(shifts[s]) = "200"
       THEN shifts' = [shifts EXCEPT ![s] = EditApply(@, n, rate)]
       ELSE UNCHANGED shifts
    /\ UNCHANGED <<applications, invoices, now, reqs, sweeps, failures, runs, config, payments, posted, quote, limits, calls, grants>>

\* PUT /api/admin/shifts/:id with visibility and visibleToEmployees in the body
AdminSetVisibility(s, visibility, visibleToEmployees) ==
    /\ s \in DOMAIN shifts
    /\ IF AdminEditResponse(shifts[s]) = "200"
       THEN shifts' = [shifts EXCEPT
                         ![s] = [EditApply(@, Undefined, Undefined) EXCEPT
                                    !.visibility = visibility,
                                    !.visibleToEmployees = visibleToEmployees]]
       ELSE UNCHANGED shifts
    /\ UNCHANGED <<applications, invoices, now, reqs, sweeps, failures, runs, config, payments, posted, quote, limits, calls, grants>>

\* (shift as any).visibility || 'all'
Visibility(doc) == IF doc.visibility = "unset" THEN "all" ELSE doc.visibility

\* GET /api/shifts/:id asked by an employee
ViewResponse(doc, e) ==
    IF Contains(doc.blockedEmployees, e) THEN "You have been blocked from viewing this shift"
    ELSE IF Visibility(doc) = "selected" /\ e \notin doc.visibleToEmployees
    THEN "This shift is not visible to you"
    ELSE IF doc.status # "open" /\ ~Contains(doc.acceptedBy, e) THEN "Shift is not available"
    ELSE "200"

----------------------------------------------------------------------------
(* Invoice collection *)

HasInvoice(invs, s) == \E inv \in invs : inv.shift = s
InvoicesOf(s) == {inv \in invoices : inv.shift = s}

\* invoiceNumber = `INV-${Date.now()}-${last 6 characters of the shift id}`,
\* unique index: an insert with an invoiceNumber already stored throws E11000.
DuplicateNumber(invs, s, ms) == \E inv \in invs : inv.shift = s /\ inv.ms = ms

NewInvoice(s, doc, ms, count, st) ==
    [shift |-> s, ms |-> ms, status |-> st,
     baseAmount |-> RoundDiv(doc.baseHourlyRate
                             * getMinutesFromShift(doc.startTime, doc.endTime) * count, 60),
     platformFee |-> doc.platformFee,
     penaltyAmount |-> doc.penaltyAmount,
     totalAmount |-> doc.totalCost + doc.penaltyAmount,
     \* paidAt: new Date() where the invoice is created paid; set or not
     paidAt |-> (st = "paid"),
     paymentProof |-> FALSE]

\* POST /api/invoices/generate/:shiftId  (routes/invoices.ts).  The route
\* declares the parameter shiftId; the handler looks the shift up by
\* req.params.id, which Shift.findById turns into a query for _id = null.
RouteParams(s) == [shiftId |-> s]
Param(params, name) == IF name \in DOMAIN params THEN params[name] ELSE "undefined"
GenerateLookup(s) == Param(RouteParams(s), "id")

GenerateInvoiceResponse(all, invs, s, ms) ==
    LET id == GenerateLookup(s) IN
    IF id \notin DOMAIN all THEN "Shift not found"
    ELSE IF HasInvoice(invs, id) THEN "Invoice already exists"
    ELSE IF DuplicateNumber(invs, id, ms) THEN "500"
    ELSE "201"

GenerateInvoice(s, ms) ==
    /\ s \in DOMAIN shifts
    /\ LET id == GenerateLookup(s) IN
       IF GenerateInvoiceResponse(shifts, invoices, s, ms) = "201"
       THEN invoices' = invoices \cup
                {NewInvoice(id, shifts[id], ms, Len(shifts[id].acceptedBy), "pending")}
       ELSE UNCHANGED invoices
    /\ UNCHANGED <<shifts, applications, now, reqs, sweeps, failures, runs, config, payments, posted, quote, limits, calls, grants>>

\* PUT /api/admin/shifts/:id/approve on a completed shift, in the variant of
\* the admin routes that verifies the payment and generates the invoice.
AdminApproveCompletedResponse(doc, invs, s) ==
    IF HasInvoice(invs, s) THEN "Invoice already exists for this shift"
    ELSE IF Len(doc.acceptedBy) = 0
    THEN "Cannot generate invoice: shift has no accepted employees"
    ELSE "200"

AdminApproveCompleted(s, ms) ==
    /\ s \in DOMAIN shifts
    /\ shifts[s].status = "completed"
    /\ IF AdminApproveCompletedResponse(shifts[s], invoices, s) = "200"
       THEN invoices' = invoices \cup
                {NewInvoice(s, shifts[s], ms, Len(shifts[s].acceptedBy), "paid")}
       ELSE UNCHANGED invoices
    /\ UNCHANGED <<shifts, applications, now, reqs, sweeps, failures, runs, config, payments, posted, quote, limits, calls, grants>>

----------------------------------------------------------------------------
(* jobs/autoCompleteShifts.ts runAutoCompleteShifts *)

RECURSIVE SortedIds(_)
SortedIds(S) ==
    IF S = {} THEN <<>>
    ELSE LET m == IF "s1" \in S THEN "s1" ELSE CHOOSE x \in S : TRUE
         IN  <<m>> \o SortedIds(S \ {m})

\* Shift.find({status: 'accepted'}).lean(): plain copies, in storage order
SweepSnapshot(all) ==
    LET ids == SortedIds({s \in DOMAIN all : all[s].status = "accepted"})
    IN  [k \in 1..Len(ids) |-> [id |-> ids[k], doc |-> all[ids[k]]]]

\* the loop skips the entries that have not ended (`continue` before the try)
RECURSIVE NextIdx(_, _, _)
NextIdx(list, i, t) ==
    IF i + 1 > Len(list) THEN Len(list) + 1
    ELSE IF isShiftEnded(list[i + 1].doc, t) THEN i + 1
    ELSE NextIdx(list, i + 1, t)

\* a sweep whose status write is left out
SweepCompleteOmitted(all, s) == all

\* Shift.findByIdAndUpdate(id, {status: 'completed'})
SweepComplete(all, s) ==
    IF s \in DOMAIN all THEN [all EXCEPT ![s].status = "completed"] ELSE all

\* the invoice the sweep synthesizes for one entry of its snapshot
SweepInvoice(entry, ms) ==
    NewInvoice(entry.id, entry.doc, ms, Len(entry.doc.acceptedBy), "paid")

\* the body of the try block for one entry, with no other writer in between
SweepProcess(db, entry, ms) ==
    IF HasInvoice(db.invoices, entry.id) THEN db
    ELSE [shifts |-> SweepComplete(db.shifts, entry.id),
          invoices |-> IF Len(entry.doc.acceptedBy) > 0
                       THEN db.invoices \cup {SweepInvoice(entry, ms)}
                       ELSE db.invoices]

RECURSIVE SweepLoop(_, _, _, _, _)
SweepLoop(db, list, i, ms, t) ==
    IF i > Len(list) THEN db
    ELSE SweepLoop(SweepProcess(db, list[i], ms), list, NextIdx(list, i, t), ms, t)

BumpRuns == IF runs < MaxRuns THEN runs + 1 ELSE runs

\* one whole run with no request and no other run in between
SweepRun(ms) ==
    /\ LET list == SweepSnapshot(shifts)
           db == SweepLoop([shifts |-> shifts, invoices |-> invoices], list,
                           NextIdx(list, 0, now), ms, now)
       IN  /\ shifts' = db.shifts
           /\ invoices' = db.invoices
    /\ UNCHANGED <<applications, now, reqs, sweeps, failures, runs, config, payments, posted, quote, limits, calls, grants>>

----------------------------------------------------------------------------
(* runAutoCompleteShifts step by step: every await is a point where another *)
(* run (setInterval does not wait for the previous run) can take a step.    *)

AllIdle == \A r \in Runners : sweeps[r].pc = "idle"

\* move to the next ended entry of the snapshot, or finish the run
Advance(rec, t) ==
    LET j == NextIdx(rec.list, rec.idx, t) IN
    [rec EXCEPT !.idx = j, !.pc = IF j > Len(rec.list) THEN "idle" ELSE "check"]

Finishes(rec, t) == NextIdx(rec.list, rec.idx, t) > Len(rec.list)

\* await Shift.find({status: 'accepted'}).lean()
SweepStart(r) ==
    /\ sweeps[r].pc = "idle"
    /\ LET rec == [IdleSweep EXCEPT !.list = SweepSnapshot(shifts)] IN
       /\ sweeps' = [sweeps EXCEPT ![r] = Advance(rec, now)]
       /\ runs' = IF Finishes(rec, now) THEN BumpRuns ELSE runs
    /\ UNCHANGED <<shifts, applications, invoices, now, reqs, failures, config, payments, posted, quote, limits, calls, grants>>

\* await Invoice.findOne({shift}); the invoice number is built before create
SweepCheck(r, ms) ==
    /\ sweeps[r].pc = "check"
    /\ LET rec == sweeps[r]
           entry == rec.list[rec.idx]
           seen == [rec EXCEPT !.visited = @ \cup {entry.id}]
       IN  IF HasInvoice(invoices, entry.id)
           THEN /\ sweeps' = [sweeps EXCEPT ![r] = Advance(seen, now)]
                /\ runs' = IF Finishes(rec, now) THEN BumpRuns ELSE runs
           ELSE /\ sweeps' = [sweeps EXCEPT ![r] =
                        [seen EXCEPT !.pc = IF Len(entry.doc.acceptedBy) > 0
                                            THEN "create" ELSE "update",
                                     !.ms = ms]]
                /\ UNCHANGED runs
    /\ UNCHANGED <<shifts, applications, invoices, now, reqs, failures, config, payments, posted, quote, limits, calls, grants>>

\* await Invoice.create(...): a duplicate invoiceNumber throws into the catch
SweepCreate(r) ==
    /\ sweeps[r].pc = "create"
    /\ LET rec == sweeps[r]
           entry == rec.list[rec.idx]
       IN  IF DuplicateNumber(invoices, entry.id, rec.ms)
           THEN /\ sweeps' = [sweeps EXCEPT ![r] =
                        Advance([rec EXCEPT !.failed = @ \cup {entry.id}], now)]
                /\ runs' = IF Finishes(rec, now) THEN BumpRuns ELSE runs
                /\ UNCHANGED invoices
           ELSE /\ invoices' = invoices \cup {SweepInvoice(entry, rec.ms)}
                /\ sweeps' = [sweeps EXCEPT ![r].pc = "update"]
                /\ UNCHANGED runs
    /\ UNCHANGED <<shifts, applications, now, reqs, failures, config, payments, posted, quote, limits, calls, grants>>

\* await Shift.findByIdAndUpdate(id, {status: 'completed'})
SweepUpdate(r) ==
    /\ sweeps[r].pc = "update"
    /\ LET rec == sweeps[r] IN
       /\ shifts' = SweepComplete(shifts, rec.list[rec.idx].id)
       /\ sweeps' = [sweeps EXCEPT ![r] = Advance(rec, now)]
       /\ runs' = IF Finishes(rec, now) THEN BumpRuns ELSE runs
    /\ UNCHANGED <<applications, invoices, now, reqs, failures, config, payments, posted, quote, limits, calls, grants>>

\* the awaited storage call rejects (transient error): caught, logged, next entry
SweepFail(r) ==
    /\ sweeps[r].pc \in {"check", "create", "update"}
    /\ failures < MaxFailures
    /\ LET rec == sweeps[r]
           id == rec.list[rec.idx].id
       IN  /\ sweeps' = [sweeps EXCEPT ![r] =
                   Advance([rec EXCEPT !.failed = @ \cup {id},
                                       !.visited = @ \cup {id}], now)]
           /\ runs' = IF Finishes(rec, now) THEN BumpRuns ELSE runs
    /\ failures' = failures + 1
    /\ UNCHANGED <<shifts, applications, invoices, now, reqs, config, payments, posted, quote, limits, calls, grants>>

SweepStep(r) ==
    \/ \E ms \in Millis : SweepCheck(r, ms)
    \/ SweepCreate(r)
    \/ SweepUpdate(r)

----------------------------------------------------------------------------
(* Claim handlers step by step.  Node answers requests concurrently: every   *)
(* await (findById, find, save) lets another request run.  A request keeps   *)
(* the document it read (`snap`); `stale` records that __v of that document  *)
(* was incremented by another save since.                                    *)

\* every other request holding a copy of shift s now holds an old version
MarkStale(q, s, bumped) ==
    [x \in ReqIds |->
        IF x # q /\ bumped /\ reqs[x].shift = s /\ reqs[x].pc \notin {"idle", "done"}
        THEN [reqs[x] EXCEPT !.stale = TRUE] ELSE reqs[x]]

Answer(rec, resp) == [rec EXCEPT !.pc = "done", !.resp = resp, !.snap = <<>>]

\* POST /:id/accept up to the checks on the document read by findById
AcceptBegin(q, e, s) ==
    /\ reqs[q].pc = "idle"
    /\ s \in DOMAIN shifts
    /\ LET rec == [IdleReq EXCEPT !.op = "accept", !.employee = e, !.shift = s,
                                  !.snap = shifts[s]]
           chk == AcceptChecks(shifts[s], e)
       IN  reqs' = [reqs EXCEPT ![q] =
                       IF chk # "ok" THEN Answer(rec, chk)
                       ELSE [rec EXCEPT !.pc = "conflicts"]]
    /\ UNCHANGED <<shifts, applications, invoices, now, sweeps, failures, runs, config, payments, posted, quote, limits, calls, grants>>

\* the conflict query and the loop over its result
AcceptConflicts(q) ==
    /\ reqs[q].pc = "conflicts"
    /\ LET rec == reqs[q] IN
       reqs' = [reqs EXCEPT ![q] =
                   IF AcceptConflict(shifts, rec.shift, rec.snap, rec.employee)
                   THEN Answer(rec, "You have a conflict with an already accepted shift")
                   ELSE [rec EXCEPT !.pc = "save"]]
    /\ UNCHANGED <<shifts, applications, invoices, now, sweeps, failures, runs, config, payments, posted, quote, limits, calls, grants>>

\* push, status, await shift.save()
AcceptSave(q) ==
    /\ reqs[q].pc = "save"
    /\ reqs[q].op = "accept"
    /\ LET rec == reqs[q]
           new == AcceptApply(rec.snap, rec.employee)
       IN  /\ shifts' = [shifts EXCEPT ![rec.shift] = Save(@, rec.snap, new, rec.stale)]
           /\ reqs' = [MarkStale(q, rec.shift, BumpsVersion(rec.snap, new))
                          EXCEPT ![q] = Answer(rec, "200")]
    /\ UNCHANGED <<applications, invoices, now, sweeps, failures, runs, config, payments, posted, quote, limits, calls, grants>>

\* POST /:id/reject up to the membership check
EmployeeRejectBegin(q, e, s) ==
    /\ reqs[q].pc = "idle"
    /\ s \in DOMAIN shifts
    /\ LET rec == [IdleReq EXCEPT !.op = "reject", !.employee = e, !.shift = s,
                                  !.snap = shifts[s]]
           chk == EmployeeRejectResponse(shifts[s], e)
       IN  reqs' = [reqs EXCEPT ![q] =
                       IF chk # "200" THEN Answer(rec, chk)
                       ELSE [rec EXCEPT !.pc = "save"]]
    /\ UNCHANGED <<shifts, applications, invoices, now, sweeps, failures, runs, config, payments, posted, quote, limits, calls, grants>>

\* splice, status, await shift.save(): VersionError goes to the catch (500)
EmployeeRejectSave(q) ==
    /\ reqs[q].pc = "save"
    /\ reqs[q].op = "reject"
    /\ LET rec == reqs[q]
           new == EmployeeRejectApply(rec.snap, rec.employee)
           thrown == SaveThrows(rec.snap, new, rec.stale)
       IN  /\ shifts' = [shifts EXCEPT ![rec.shift] = Save(@, rec.snap, new, rec.stale)]
           /\ reqs' = [MarkStale(q, rec.shift, ~thrown /\ BumpsVersion(rec.snap, new))
                          EXCEPT ![q] = Answer(rec, IF thrown THEN "500" ELSE "200")]
    /\ UNCHANGED <<applications, invoices, now, sweeps, failures, runs, config, payments, posted, quote, limits, calls, grants>>

\* the response has been sent; the slot serves the next request
Respond(q) ==
    /\ reqs[q].pc = "done"
    /\ reqs' = [reqs EXCEPT ![q] = IdleReq]
    /\ UNCHANGED <<shifts, applications, invoices, now, sweeps, failures, runs, config, payments, posted, quote, limits, calls, grants>>

----------------------------------------------------------------------------
(* Specifications *)

LifecycleShifts == {"s1"}
LifecycleTimes == {0, 3660}
Headcounts == {1, 2}

\* Staffing lifecycle of a shift: every handler that writes a Shift or an
\* Application, each request answered before the next one starts.
Next ==
    \/ \E t \in LifecycleTimes : Tick(t)
    \/ \E s \in LifecycleShifts, n \in Headcounts : CreateShift(s, n, Undefined)
    \/ \E s \in LifecycleShifts : AdminApprove(s, Undefined)
    \/ \E e \in Employees, s \in LifecycleShifts : Accept(e, s)
    \/ \E e \in Employees, s \in LifecycleShifts : EmployeeReject(e, s)
    \/ \E e \in Employees, s \in LifecycleShifts : EmployeeCancel(e, s)
    \/ \E c \in Cafes, s \in LifecycleShifts : CafeCancel(c, s)
    \/ \E c \in Cafes, s \in LifecycleShifts : Pause(c, s)
    \/ \E c \in Cafes, s \in LifecycleShifts, file \in BOOLEAN : Complete(c, s, file)
    \/ \E c \in Cafes, s \in LifecycleShifts, e \in Employees, block \in BOOLEAN :
          RemoveEmployee(c, s, e, block)
    \/ \E c \in Cafes, s \in LifecycleShifts, e \in Employees :
          CafeRejectEmployee(c, s, e, "no-show")
    \/ \E e \in Employees, s \in LifecycleShifts : Apply(e, s)
    \/ \E c \in Cafes, i \in AppIds : ApplicationAccept(c, i)
    \/ \E c \in Cafes, i \in AppIds : ApplicationReject(c, i, "Application rejected")
    \/ \E e \in Employees, i \in AppIds : Withdraw(e, i)
    \/ \E c \in Cafes, s \in LifecycleShifts, n \in Headcounts : CafeEdit(c, s, n, Undefined)
    \/ \E s \in LifecycleShifts, n \in Headcounts : AdminEdit(s, n, Undefined)

Spec == Init /\ [][Next]_vars

\* Invoices of a shift: the handlers that bring a shift to its end, the
\* handlers that create an Invoice, and the sweep run as a whole.
NextInvoice ==
    \/ \E t \in LifecycleTimes : Tick(t)
    \/ \E s \in ShiftIds, n \in Headcounts : CreateShift(s, n, Undefined)
    \/ \E s \in ShiftIds : AdminApprove(s, Undefined)
    \/ \E e \in Employees, s \in ShiftIds : Accept(e, s)
    \/ \E e \in Employees, s \in ShiftIds : EmployeeCancel(e, s)
    \/ \E s \in ShiftIds : CafeCancel(OwnerCafe, s)
    \/ \E s \in ShiftIds : Pause(OwnerCafe, s)
    \/ \E s \in ShiftIds, file \in BOOLEAN : Complete(OwnerCafe, s, file)
    \/ \E s \in ShiftIds, e \in Employees : RemoveEmployee(OwnerCafe, s, e, FALSE)
    \/ \E s \in ShiftIds, ms \in Millis : GenerateInvoice(s, ms)
    \/ \E s \in ShiftIds, ms \in Millis : AdminApproveCompleted(s, ms)
    \/ \E ms \in Millis : SweepRun(ms)

SpecInvoice == Init /\ [][NextInvoice]_vars

\* a posted shift after the admin's approval
OpenShift(s, n) ==
    [NewShift(OwnerCafe, ShiftPlan(s), n, basePriceTier24Plus, 0, 0)
        EXCEPT !.status = "open"]

\* Two approved shifts, open for claims.
InitClaims ==
    /\ \E n1 \in Headcounts, n2 \in Headcounts :
          shifts = ("s1" :> OpenShift("s1", n1)) @@ ("s2" :> OpenShift("s2", n2))
    /\ applications = <<>>
    /\ invoices = {}
    /\ now = 0
    /\ reqs = [q \in ReqIds |-> IdleReq]
    /\ sweeps = [r \in Runners |-> IdleSweep]
    /\ failures = 0
    /\ runs = 0
    /\ config = DefaultConfig
    /\ payments = {}
    /\ posted = History(shifts)
    /\ quote = NoQuote
    /\ limits = NoLimits
    /\ calls = [c \in Callers |-> IdleCall]
    /\ grants = NoGrants

NextClaims ==
    \/ \E q \in ReqIds, e \in Employees, s \in ShiftIds : AcceptBegin(q, e, s)
    \/ \E q \in ReqIds : AcceptConflicts(q)
    \/ \E q \in ReqIds : AcceptSave(q)
    \/ \E q \in ReqIds, e \in Employees, s \in ShiftIds : EmployeeRejectBegin(q, e, s)
    \/ \E q \in ReqIds : EmployeeRejectSave(q)
    \/ \E q \in ReqIds : Respond(q)

SpecClaims == InitClaims /\ [][NextClaims]_vars

\* The first shift is fully staffed, the second is fully staffed or open; no
\* shift has ended yet and no sweep has run.
InitSweep ==
    /\ \E x \in {OpenShift("s2", 1), AcceptApply(OpenShift("s2", 1), "e2")} :
          shifts = ("s1" :> AcceptApply(OpenShift("s1", 1), "e1")) @@ ("s2" :> x)
    /\ applications = <<>>
    /\ invoices = {}
    /\ now = 0
    /\ reqs = [q \in ReqIds |-> IdleReq]
    /\ sweeps = [r \in Runners |-> IdleSweep]
    /\ failures = 0
    /\ runs = 0
    /\ config = DefaultConfig
    /\ payments = {}
    /\ posted = History(shifts)
    /\ quote = NoQuote
    /\ limits = NoLimits
    /\ calls = [c \in Callers |-> IdleCall]
    /\ grants = NoGrants

\* Sweep runs that may overlap and whose storage calls may fail.
NextSweep ==
    \/ \E t \in TimePoints : Tick(t)
    \/ \E r \in Runners : SweepStart(r)
    \/ \E r \in Runners : SweepStep(r)
    \/ \E r \in Runners : SweepFail(r)

SpecSweep == InitSweep /\ [][NextSweep]_vars

\* Runs one after the other (each finishes within the timer's period), whose
\* storage calls may fail.
NextSweepFaulty ==
    \/ \E t \in TimePoints : Tick(t)
    \/ \E r \in Runners : AllIdle /\ SweepStart(r)
    \/ \E r \in Runners : SweepStep(r)
    \/ \E r \in Runners : SweepFail(r)

SpecSweepFaulty == InitSweep /\ [][NextSweepFaulty]_vars

\* The timer keeps firing and a started run keeps going.
SpecSweepFair ==
    /\ InitSweep /\ [][NextSweepFaulty]_vars
    /\ WF_vars(\E r \in Runners : AllIdle /\ SweepStart(r))
    /\ \A r \in Runners : WF_vars(SweepStep(r))

\* Runs one after the other over a fixed set of ended shifts, no failure.
NextSweepSeq ==
    \/ \E t \in TimePoints : AllIdle /\ runs = 0 /\ Tick(t)
    \/ \E r \in Runners : AllIdle /\ SweepStart(r)
    \/ \E r \in Runners : SweepStep(r)

SpecSweepSeq == InitSweep /\ [][NextSweepSeq]_vars

----------------------------------------------------------------------------
(* Properties *)

\* C1: under concurrent direct accepts of one shift, acceptedBy never holds
\* more employees than requiredEmployees (so that of the claimants of the
\* last slot only one can have been written).
C1_AcceptsWithinHeadcount ==
    \A s \in DOMAIN shifts : Len(shifts[s].acceptedBy) <= shifts[s].requiredEmployees

\* the café rejected employee e from shift s: e is blocked and the rejection
\* is on record
RejectedFrom(e, s) ==
    /\ Contains(shifts[s].blockedEmployees, e)
    /\ FindApplication(applications, s, e) # 0
    /\ applications[FindApplication(applications, s, e)].status = "rejected"

\* C2: after a café rejected employee e from shift s, no later claim by e on
\* s succeeds: e is never written to acceptedBy of s again.
C2_RejectedNeverClaimsAgain ==
    [][\A s \in DOMAIN shifts : \A e \in Employees :
          (RejectedFrom(e, s) /\ ~Contains(shifts[s].acceptedBy, e))
              => ~Contains(shifts'[s].acceptedBy, e)]_vars

\* C3: a shift never has more than one invoice, and a request to generate an
\* invoice for a shift that has one is answered 'Invoice already exists'.
C3_OneInvoiceAndConflict ==
    \A s \in DOMAIN shifts :
        /\ Cardinality(InvoicesOf(s)) <= 1
        /\ HasInvoice(invoices, s) =>
              \A ms \in Millis :
                  GenerateInvoiceResponse(shifts, invoices, s, ms) = "Invoice already exists"

\* C4: sweep runs that overlap in time leave at most one invoice per shift.
C4_OverlapOneInvoice ==
    \A s \in DOMAIN shifts : Cardinality(InvoicesOf(s)) <= 1

\* C5: after one complete sweep run over a set of ended accepted shifts each
\* of them is completed and has exactly one invoice, and the next run
\* changes no shift and creates no invoice.
C5_SecondRunNoOp ==
    [][/\ runs >= 1 => (shifts' = shifts /\ invoices' = invoices)
       /\ (runs' >= 1 /\ AllIdle') =>
             \A s \in DOMAIN shifts :
                 (isShiftEnded(shifts'[s], now') /\ shifts'[s].status \in {"accepted", "completed"})
                     => /\ shifts'[s].status = "completed"
                        /\ Cardinality({inv \in invoices' : inv.shift = s}) = 1]_vars

\* two runs in succession have finished over a shift that had ended
C5_Witness ==
    /\ runs >= 2
    /\ AllIdle
    /\ \E s \in DOMAIN shifts :
          shifts[s].status = "completed" /\ Cardinality(InvoicesOf(s)) = 1

\* C6: with the sweep firing again and again and only finitely many failed
\* storage calls, every accepted shift whose end has passed is eventually
\* completed.
C6_EndedEventuallyCompleted ==
    \A s \in ShiftIds :
        (shifts[s].status = "accepted" /\ isShiftEnded(shifts[s], now))
            ~> (shifts[s].status = "completed")

\* C7: when a sweep run in which the processing of some shift threw has
\* finished, every other ended shift the run went through is completed.
C7_OthersCompleted ==
    \A r \in Runners :
        (sweeps[r].pc = "idle" /\ sweeps[r].failed # {})
            => \A s \in sweeps[r].visited \ sweeps[r].failed :
                   shifts[s].status = "completed"

StatusEdges ==
    {<<"pending_approval", "open">>, <<"open", "accepted">>, <<"accepted", "open">>,
     <<"open", "completed">>, <<"accepted", "completed">>,
     <<"open", "cancelled">>, <<"accepted", "cancelled">>,
     <<"open", "paused">>, <<"accepted", "paused">>}

\* C8: the status of a shift changes only along pending_approval -> open,
\* open -> accepted, accepted -> open, {open, accepted} -> completed,
\* {open, accepted} -> cancelled, {open, accepted} -> paused.
C8_StatusEdges ==
    [][\A s \in DOMAIN shifts :
          shifts'[s].status # shifts[s].status
              => <<shifts[s].status, shifts'[s].status>> \in StatusEdges]_vars

\* C9: once a shift is completed or cancelled, no operation changes its
\* status, acceptedBy, requiredEmployees, date and times, or rates.
C9_TerminalFrozen ==
    [][\A s \in DOMAIN shifts :
          shifts[s].status \in {"completed", "cancelled"}
              => /\ shifts'[s].status = shifts[s].status
                 /\ shifts'[s].acceptedBy = shifts[s].acceptedBy
                 /\ shifts'[s].requiredEmployees = shifts[s].requiredEmployees
                 /\ shifts'[s].date = shifts[s].date
                 /\ shifts'[s].startTime = shifts[s].startTime
                 /\ shifts'[s].endTime = shifts[s].endTime
                 /\ shifts'[s].baseHourlyRate = shifts[s].baseHourlyRate
                 /\ shifts'[s].employeeHourlyRate = shifts[s].employeeHourlyRate]_vars

\* C10: once a shift is paused or cancelled, no employee is added to it and
\* it does not become open again.
C10_PausedStaysClosed ==
    [][\A s \in DOMAIN shifts :
          shifts[s].status \in {"paused", "cancelled"}
              => /\ shifts'[s].status # "open"
                 /\ \A e \in Employees :
                       Contains(shifts'[s].acceptedBy, e) => Contains(shifts[s].acceptedBy, e)]_vars

----------------------------------------------------------------------------
(* Cancellation window *)

CancelTimes == {0, 1920, 1979, 1980, 2000}

\* Posting, staffing and cancelling a shift around the 24-hour limit.
NextCancel ==
    \/ \E t \in CancelTimes : Tick(t)
    \/ \E s \in LifecycleShifts, n \in Headcounts : CreateShift(s, n, Undefined)
    \/ \E s \in LifecycleShifts : AdminApprove(s, Undefined)
    \/ \E e \in Employees, s \in LifecycleShifts : Accept(e, s)
    \/ \E e \in Employees, s \in LifecycleShifts : EmployeeCancel(e, s)
    \/ \E c \in Cafes, s \in LifecycleShifts : CafeCancel(c, s)
    \/ \E c \in Cafes, s \in LifecycleShifts : Pause(c, s)

SpecCancel == Init /\ [][NextCancel]_vars

MinutesUntilStart(doc, t) == DateTime(doc.date, doc.startTime) - t

\* C11: a cafe's cancel request for its own shift is accepted when the start
\* is 24 hours and 1 minute or more away, and is refused with the 24-hour
\* message when the start is 24 hours or less away.
C11_CancelBoundary ==
    \A s \in DOMAIN shifts :
        /\ MinutesUntilStart(shifts[s], now) >= 24 * 60 + 1
              => CafeCancelResponse(shifts[s], shifts[s].cafe, now) = "200"
        /\ MinutesUntilStart(shifts[s], now) <= 24 * 60
              => CafeCancelResponse(shifts[s], shifts[s].cafe, now)
                    = "Cannot cancel shift with less than 24 hours remaining"

----------------------------------------------------------------------------
(* Direct accept *)

\* C12: on an open shift, a direct accept by an employee who is not yet in
\* acceptedBy and has no overlapping shift, made when one place is left,
\* is answered with success, appends the claimant and sets status accepted;
\* a direct accept made when acceptedBy has reached requiredEmployees is
\* answered 'Shift is already full' and changes no shift.
C12_AcceptBoundary ==
    [][\A s \in DOMAIN shifts : \A e \in Employees :
          shifts[s].status = "open" =>
              /\ (/\ Len(shifts[s].acceptedBy) = shifts[s].requiredEmployees - 1
                  /\ ~Contains(shifts[s].acceptedBy, e)
                  /\ ~AcceptConflict(shifts, s, shifts[s], e))
                    => /\ AcceptResponse(shifts, s, e) = "200"
                       /\ Accept(e, s) =>
                             /\ shifts'[s].acceptedBy = Append(shifts[s].acceptedBy, e)
                             /\ shifts'[s].status = "accepted"
              /\ Len(shifts[s].acceptedBy) = shifts[s].requiredEmployees
                    => /\ AcceptResponse(shifts, s, e) = "Shift is already full"
                       /\ Accept(e, s) => shifts' = shifts]_vars

\* an open shift whose headcount is reached (an accept, then an edit of
\* requiredEmployees down to the accepted count)
C12_Witness ==
    \E s \in DOMAIN shifts :
        /\ shifts[s].status = "open"
        /\ Len(shifts[s].acceptedBy) = shifts[s].requiredEmployees
        /\ Len(shifts[s].acceptedBy) = 1

----------------------------------------------------------------------------
(* Conflicting shifts *)

\* s1 and s2 overlap, s3 starts when s1 ends and overlaps s2, s4 has the
\* hours of s1 on the next day.
ConflictShifts == {"s1", "s2", "s3", "s4"}

\* Posting, approving, claiming, giving back and pausing several shifts.
NextConflict ==
    \/ \E s \in ConflictShifts : CreateShift(s, 1, Undefined)
    \/ \E s \in ConflictShifts : AdminApprove(s, Undefined)
    \/ \E s \in ConflictShifts : Accept("e1", s)
    \/ \E s \in ConflictShifts : EmployeeReject("e1", s)
    \/ \E s \in ConflictShifts : Pause(OwnerCafe, s)

SpecConflict == Init /\ [][NextConflict]_vars

\* the shifts that stand in the way of employee e claiming shift s
Overlapping(s, e) ==
    {x \in DOMAIN shifts \ {s} :
        /\ Contains(shifts[x].acceptedBy, e)
        /\ shifts[x].status \in {"open", "accepted"}
        /\ shifts[x].date = shifts[s].date
        /\ ToMinutes(shifts[x].startTime) < ToMinutes(shifts[s].endTime)
        /\ ToMinutes(shifts[x].endTime) > ToMinutes(shifts[s].startTime)}

ConflictMessage == "You have a conflict with an already accepted shift"

\* C13: a direct accept of shift s by an employee who holds another open or
\* accepted shift of the same date whose hours overlap those of s is
\* refused, with the conflict message when s itself is claimable, and
\* changes no shift; a shift that starts when the held one ends does not
\* stand in the way.
C13_OverlapRefused ==
    [][\A s \in DOMAIN shifts : \A e \in Employees :
          /\ Overlapping(s, e) # {}
                => /\ AcceptResponse(shifts, s, e) # "200"
                   /\ AcceptChecks(shifts[s], e) = "ok"
                         => AcceptResponse(shifts, s, e) = ConflictMessage
                   /\ Accept(e, s) => shifts' = shifts
          /\ (Overlapping(s, e) = {} /\ AcceptChecks(shifts[s], e) = "ok")
                => /\ AcceptResponse(shifts, s, e) = "200"
                   /\ Accept(e, s) => Contains(shifts'[s].acceptedBy, e)]_vars

\* the employee holds s1 and the back-to-back s3, while the overlapping s2
\* is still open
C13_Witness ==
    /\ {"s1", "s2", "s3"} \subseteq DOMAIN shifts
    /\ Contains(shifts["s1"].acceptedBy, "e1")
    /\ Contains(shifts["s3"].acceptedBy, "e1")
    /\ shifts["s2"].status = "open"
    /\ shifts["s2"].acceptedBy = <<>>

----------------------------------------------------------------------------
(* Visibility *)

\* Posting and approving a shift, restricting it to a list of employees,
\* and the two ways an employee claims it.
NextVisibility ==
    \/ \E s \in LifecycleShifts, n \in Headcounts : CreateShift(s, n, Undefined)
    \/ \E s \in LifecycleShifts : AdminApprove(s, Undefined)
    \/ \E s \in LifecycleShifts, v \in {"all", "selected"}, list \in SUBSET Employees :
          AdminSetVisibility(s, v, list)
    \/ \E e \in Employees, s \in LifecycleShifts : Accept(e, s)
    \/ \E e \in Employees, s \in LifecycleShifts : EmployeeReject(e, s)
    \/ \E e \in Employees, s \in LifecycleShifts : Apply(e, s)
    \/ \E i \in AppIds : ApplicationAccept(OwnerCafe, i)

SpecVisibility == Init /\ [][NextVisibility]_vars

\* C14: while a shift is restricted to selected employees, an employee who
\* is not in visibleToEmployees is not added to its acceptedBy.
C14_OnlySelectedClaim ==
    [][\A s \in DOMAIN shifts : \A e \in Employees :
          (/\ Visibility(shifts[s]) = "selected"
           /\ e \notin shifts[s].visibleToEmployees
           /\ ~Contains(shifts[s].acceptedBy, e))
              => ~Contains(shifts'[s].acceptedBy, e)]_vars

----------------------------------------------------------------------------
(* The two ways of staffing a shift *)

\* Direct accepts, applications and the cafe's acceptance of applications.
NextStaffing ==
    \/ \E s \in ShiftIds, n \in Headcounts : CreateShift(s, n, Undefined)
    \/ \E s \in ShiftIds : AdminApprove(s, Undefined)
    \/ \E e \in Employees, s \in ShiftIds : Accept(e, s)
    \/ \E e \in Employees, s \in ShiftIds : Apply(e, s)
    \/ \E i \in AppIds : ApplicationAccept(OwnerCafe, i)

SpecStaffing == Init /\ [][NextStaffing]_vars

\* C15: after any mix of direct accepts and accepted applications a shift
\* holds at most requiredEmployees employees, and its status is accepted
\* exactly when acceptedBy has reached requiredEmployees.
C15_SameStaffingInvariant ==
    \A s \in DOMAIN shifts :
        /\ Len(shifts[s].acceptedBy) <= shifts[s].requiredEmployees
        /\ shifts[s].status = "accepted"
              <=> Len(shifts[s].acceptedBy) = shifts[s].requiredEmployees

----------------------------------------------------------------------------
(* One Application per (shift, employee): models/Application.ts and the two
   handlers that insert Application documents, step by step *)

NoUniqueIndex(apps, s, e) == FALSE

\* ApplicationSchema.index({shift: 1, employee: 1}, {unique: true}): an insert
\* of a second document with the same pair fails with E11000
DuplicateKey(apps, s, e) == FindApplication(apps, s, e) # 0

AlreadyApplied == "You have already applied for this shift"

\* POST /api/applications up to the checks on the shift read by findById
ApplyBegin(q, e, s) ==
    /\ reqs[q].pc = "idle"
    /\ s \in DOMAIN shifts
    /\ LET rec == [IdleReq EXCEPT !.op = "apply", !.employee = e, !.shift = s,
                                  !.snap = shifts[s]]
           chk == ApplyResponse(shifts[s], <<>>, s, e)
       IN  reqs' = [reqs EXCEPT ![q] =
                       IF chk # "201" THEN Answer(rec, chk)
                       ELSE [rec EXCEPT !.pc = "find"]]
    /\ UNCHANGED <<shifts, applications, invoices, now, sweeps, failures, runs, config, payments, posted, quote, limits, calls, grants>>

\* await Application.findOne({shift, employee})
ApplyFind(q) ==
    /\ reqs[q].pc = "find"
    /\ reqs[q].op = "apply"
    /\ LET rec == reqs[q] IN
       reqs' = [reqs EXCEPT ![q] =
                   IF FindApplication(applications, rec.shift, rec.employee) # 0
                   THEN Answer(rec, AlreadyApplied)
                   ELSE [rec EXCEPT !.pc = "create"]]
    /\ UNCHANGED <<shifts, applications, invoices, now, sweeps, failures, runs, config, payments, posted, quote, limits, calls, grants>>

\* await Application.create({... status: 'pending'}); error.code === 11000 is
\* answered with the same message as the findOne check
ApplyCreate(q) ==
    /\ reqs[q].pc = "create"
    /\ reqs[q].op = "apply"
    /\ LET rec == reqs[q] IN
       IF DuplicateKey(applications, rec.shift, rec.employee)
       THEN /\ reqs' = [reqs EXCEPT ![q] = Answer(rec, AlreadyApplied)]
            /\ UNCHANGED applications
       ELSE /\ applications' = Append(applications,
                                  NewApplication(rec.shift, rec.employee, "pending", "none"))
            /\ reqs' = [reqs EXCEPT ![q] = Answer(rec, "201")]
    /\ UNCHANGED <<shifts, invoices, now, sweeps, failures, runs, config, payments, posted, quote, limits, calls, grants>>

\* POST /api/employee/:employeeId/shift/:shiftId/reject up to the splice
CafeRejectBegin(q, cafe, e, s) ==
    /\ reqs[q].pc = "idle"
    /\ s \in DOMAIN shifts
    /\ LET rec == [IdleReq EXCEPT !.op = "cafeReject", !.employee = e, !.shift = s,
                                  !.snap = shifts[s]]
           chk == CafeRejectEmployeeResponse(shifts[s], cafe, e)
       IN  reqs' = [reqs EXCEPT ![q] =
                       IF chk # "200" THEN Answer(rec, chk)
                       ELSE [rec EXCEPT !.pc = "find"]]
    /\ UNCHANGED <<shifts, applications, invoices, now, sweeps, failures, runs, config, payments, posted, quote, limits, calls, grants>>

\* await Application.findOne({shift, employee})
CafeRejectFind(q) ==
    /\ reqs[q].pc = "find"
    /\ reqs[q].op = "cafeReject"
    /\ reqs' = [reqs EXCEPT ![q].pc = "write",
                            ![q].app = FindApplication(applications, reqs[q].shift,
                                                       reqs[q].employee)]
    /\ UNCHANGED <<shifts, applications, invoices, now, sweeps, failures, runs, config, payments, posted, quote, limits, calls, grants>>

\* application.save() on the document found, or Application.create of the
\* rejection record; E11000 goes to the catch (500) before shift.save()
CafeRejectWrite(q, reason) ==
    /\ reqs[q].pc = "write"
    /\ reqs[q].op = "cafeReject"
    /\ LET rec == reqs[q] IN
       IF rec.app # 0
       THEN /\ applications' = [applications EXCEPT ![rec.app].status = "rejected",
                                                    ![rec.app].rejectionReason = reason]
            /\ reqs' = [reqs EXCEPT ![q].pc = "save"]
       ELSE IF DuplicateKey(applications, rec.shift, rec.employee)
       THEN /\ reqs' = [reqs EXCEPT ![q] = Answer(rec, "500")]
            /\ UNCHANGED applications
       ELSE /\ applications' = Append(applications,
                                  NewApplication(rec.shift, rec.employee, "rejected", reason))
            /\ reqs' = [reqs EXCEPT ![q].pc = "save"]
    /\ UNCHANGED <<shifts, invoices, now, sweeps, failures, runs, config, payments, posted, quote, limits, calls, grants>>

\* block, reopen, await shift.save(): VersionError goes to the catch (500)
CafeRejectSave(q) ==
    /\ reqs[q].pc = "save"
    /\ reqs[q].op = "cafeReject"
    /\ LET rec == reqs[q]
           new == CafeRejectEmployeeApply(rec.snap, rec.employee)
           thrown == SaveThrows(rec.snap, new, rec.stale)
       IN  /\ shifts' = [shifts EXCEPT ![rec.shift] = Save(@, rec.snap, new, rec.stale)]
           /\ reqs' = [MarkStale(q, rec.shift, ~thrown /\ BumpsVersion(rec.snap, new))
                          EXCEPT ![q] = Answer(rec, IF thrown THEN "500" ELSE "200")]
    /\ UNCHANGED <<applications, invoices, now, sweeps, failures, runs, config, payments, posted, quote, limits, calls, grants>>

\* One approved shift, open for claims and applications.
InitApply ==
    /\ \E n \in Headcounts : shifts = ("s1" :> OpenShift("s1", n))
    /\ applications = <<>>
    /\ invoices = {}
    /\ now = 0
    /\ reqs = [q \in ReqIds |-> IdleReq]
    /\ sweeps = [r \in Runners |-> IdleSweep]
    /\ failures = 0
    /\ runs = 0
    /\ config = DefaultConfig
    /\ payments = {}
    /\ posted = History(shifts)
    /\ quote = NoQuote
    /\ limits = NoLimits
    /\ calls = [c \in Callers |-> IdleCall]
    /\ grants = NoGrants

NextApply ==
    \/ \E q \in ReqIds, e \in Employees, s \in LifecycleShifts : AcceptBegin(q, e, s)
    \/ \E q \in ReqIds : AcceptConflicts(q)
    \/ \E q \in ReqIds : AcceptSave(q)
    \/ \E q \in ReqIds, e \in Employees, s \in LifecycleShifts : ApplyBegin(q, e, s)
    \/ \E q \in ReqIds : ApplyFind(q)
    \/ \E q \in ReqIds : ApplyCreate(q)
    \/ \E q \in ReqIds, e \in Employees, s \in LifecycleShifts :
          CafeRejectBegin(q, OwnerCafe, e, s)
    \/ \E q \in ReqIds : CafeRejectFind(q)
    \/ \E q \in ReqIds : CafeRejectWrite(q, "reason")
    \/ \E q \in ReqIds : CafeRejectSave(q)
    \/ \E q \in ReqIds : Respond(q)

SpecApply == InitApply /\ [][NextApply]_vars

OnePerPair ==
    \A i \in AppIds, j \in AppIds :
        i # j => ~(/\ applications[i].shift = applications[j].shift
                   /\ applications[i].employee = applications[j].employee)

DuplicateRefused ==
    \A q \in ReqIds :
        (/\ reqs[q].op = "apply"
         /\ reqs[q].pc \in {"find", "create"}
         /\ reqs'[q].pc = "done"
         /\ FindApplication(applications, reqs[q].shift, reqs[q].employee) # 0)
        => /\ reqs'[q].resp = AlreadyApplied
           /\ applications' = applications

\* C16: under every interleaving of apply requests, direct accepts and cafe
\* rejections there is at most one Application per (shift, employee), and an
\* apply that reaches the duplicate check or the insert while a record for
\* its pair exists is answered 'You have already applied for this shift' and
\* inserts nothing.
C16_OneApplicationPerPair == []OnePerPair /\ [][DuplicateRefused]_vars

\* an apply request past its findOne (which saw no record) while a record for
\* its pair has been inserted by another request
C16_Witness ==
    \E q \in ReqIds :
        /\ reqs[q].op = "apply"
        /\ reqs[q].pc = "create"
        /\ FindApplication(applications, reqs[q].shift, reqs[q].employee) # 0

----------------------------------------------------------------------------
(* Accepting an application at the headcount ceiling *)

PendingFor(apps, s) == {i \in 1..Len(apps) : apps[i].shift = s /\ apps[i].status = "pending"}

AtCeiling(doc) == Len(doc.acceptedBy) >= doc.requiredEmployees

AcceptAtCeiling ==
    \A i \in AppIds :
        LET s == applications[i].shift IN
        applications[i].status = "pending" =>
            /\ AtCeiling(shifts[s]) =>
                  ApplicationAcceptResponse(shifts, applications, OwnerCafe, i)
                      = "Shift is already full"
            /\ (/\ ApplicationAccept(OwnerCafe, i)
                /\ ApplicationAcceptResponse(shifts, applications, OwnerCafe, i) = "200"
                /\ AtCeiling(shifts'[s]))
               => /\ PendingFor(applications', s) = {}
                  /\ shifts'[s].status = "accepted"

\* C17: when the cafe accepts a pending application and the shift then holds
\* requiredEmployees employees, no application for the shift is left pending
\* and the shift's status is accepted; while the shift already holds
\* requiredEmployees employees, accepting a pending application is answered
\* 'Shift is already full'.
C17_AcceptAtCeiling == [][AcceptAtCeiling]_vars

----------------------------------------------------------------------------
(* Application lifecycle: every handler that writes an Application *)

NextApplication ==
    \/ \E e \in Employees, s \in LifecycleShifts : Apply(e, s)
    \/ \E e \in Employees, s \in LifecycleShifts : Accept(e, s)
    \/ \E e \in Employees, s \in LifecycleShifts : EmployeeReject(e, s)
    \/ \E i \in AppIds : ApplicationAccept(OwnerCafe, i)
    \/ \E i \in AppIds : ApplicationReject(OwnerCafe, i, "Application rejected")
    \/ \E e \in Employees, i \in AppIds : Withdraw(e, i)
    \/ \E e \in Employees, s \in LifecycleShifts, b \in BOOLEAN :
          RemoveEmployee(OwnerCafe, s, e, b)
    \/ \E e \in Employees, s \in LifecycleShifts : CafeRejectEmployee(OwnerCafe, s, e, "reason")

SpecApplication == InitApply /\ [][NextApplication]_vars

TerminalStatuses == {"accepted", "rejected", "withdrawn"}

ApplicationTerminal ==
    \A i \in AppIds :
        applications[i].status \in TerminalStatuses =>
            /\ applications'[i].status = applications[i].status
            /\ WithdrawResponse(applications, applications[i].employee, i)
                  = "Can only withdraw pending applications"
            /\ ApplicationAcceptResponse(shifts, applications, OwnerCafe, i)
                  = "Application is not pending"
            /\ ApplicationRejectResponse(shifts, applications, OwnerCafe, i)
                  = "Application is not pending"

\* C18: an application that is accepted, rejected or withdrawn keeps its
\* status through every later operation; withdrawing, accepting or rejecting
\* it is refused because it is not pending.
C18_ApplicationTerminal == [][ApplicationTerminal]_vars

----------------------------------------------------------------------------
(* PUT /api/admin/invoices/:id  (routes/admin.ts) and the invoice amounts *)

InvoiceFees == {Undefined, 0, 1000}
InvoicePenalties == {Undefined, 0, 2800}
InvoiceStatusUpdates == {"none", "approved", "paid"}

\* mutation of the admin update: the status checks dropped
AdminEditInvoiceUnchecked(inv, status) == "200"

AdminEditInvoiceResponse(inv, status) ==
    IF status = "approved" /\ inv.status # "draft"
    THEN "Only draft invoices can be approved"
    ELSE IF status = "paid" /\ inv.status # "pending_verification"
    THEN "Only invoices with submitted payment proof can be marked paid"
    ELSE "200"

AdminEditInvoiceApply(inv, fee, penalty, status) ==
    LET platformFee == IF fee # Undefined THEN fee ELSE inv.platformFee
        penaltyAmount == IF penalty # Undefined THEN penalty ELSE inv.penaltyAmount
    IN  [inv EXCEPT !.platformFee = platformFee,
                    !.penaltyAmount = penaltyAmount,
                    !.totalAmount = inv.baseAmount + platformFee + penaltyAmount,
                    !.status = IF status = "none" THEN @ ELSE status,
                    !.paidAt = IF status = "paid" THEN TRUE ELSE @]

\* mutation of the update: the document is saved before the status checks
AdminEditInvoiceSavedEarly(inv, fee, penalty, status) ==
    IF AdminEditInvoiceResponse(inv, status) = "200"
    THEN AdminEditInvoiceApply(inv, fee, penalty, status)
    ELSE AdminEditInvoiceApply(inv, fee, penalty, "none")

\* the stored document after the request: the fields are assigned on the
\* loaded document, and a refused status change returns before invoice.save()
AdminEditInvoiceSaved(inv, fee, penalty, status) ==
    IF AdminEditInvoiceResponse(inv, status) = "200"
    THEN AdminEditInvoiceApply(inv, fee, penalty, status)
    ELSE inv

AdminEditInvoice(inv, fee, penalty, status) ==
    /\ inv \in invoices
    /\ invoices' = (invoices \ {inv}) \cup {AdminEditInvoiceSaved(inv, fee, penalty, status)}
    /\ UNCHANGED <<shifts, applications, now, reqs, sweeps, failures, runs, config, payments, posted, quote, limits, calls, grants>>

NextBilling ==
    \/ \E t \in LifecycleTimes : Tick(t)
    \/ \E s \in LifecycleShifts, n \in Headcounts : CreateShift(s, n, Undefined)
    \/ \E s \in LifecycleShifts : AdminApprove(s, Undefined)
    \/ \E e \in Employees, s \in LifecycleShifts : Accept(e, s)
    \/ \E s \in LifecycleShifts, n \in Headcounts : CafeEdit(OwnerCafe, s, n, Undefined)
    \/ \E s \in LifecycleShifts, n \in Headcounts : AdminEdit(s, n, Undefined)
    \/ \E s \in LifecycleShifts, file \in BOOLEAN : Complete(OwnerCafe, s, file)
    \/ \E s \in LifecycleShifts, ms \in Millis : GenerateInvoice(s, ms)
    \/ \E s \in LifecycleShifts, ms \in Millis : AdminApproveCompleted(s, ms)
    \/ \E ms \in Millis : SweepRun(ms)
    \/ \E inv \in invoices, fee \in InvoiceFees, penalty \in InvoicePenalties,
          status \in InvoiceStatusUpdates : AdminEditInvoice(inv, fee, penalty, status)

SpecBilling == Init /\ [][NextBilling]_vars

\* C19: every invoice, as created by the sweep, by manual generation or by
\* the admin's approval, and as left by an admin edit of its fee or penalty,
\* has totalAmount = baseAmount + platformFee + penaltyAmount.
C19_TotalIsSumOfParts ==
    \A inv \in invoices :
        inv.totalAmount = inv.baseAmount + inv.platformFee + inv.penaltyAmount

----------------------------------------------------------------------------
(* Completed shifts and their invoices *)

\* C20: every shift in status completed that has at least one accepted
\* employee has an invoice, whether the sweep or the cafe completed it.
C20_CompletedHasInvoice ==
    \A s \in DOMAIN shifts :
        (shifts[s].status = "completed" /\ Len(shifts[s].acceptedBy) >= 1)
            => HasInvoice(invoices, s)

----------------------------------------------------------------------------
(* PUT /api/shifts/:id and PUT /api/admin/shifts/:id with the whole body *)

NoTime == <<>>

EditStartTimes == {NoTime, <<10, 30>>}
EditEndTimes == {NoTime, <<12, 0>>}
EditHeadcounts == {Undefined, 1, 2}
EditRates == {Undefined, 1700}
EditFees == {Undefined, 0}

\* req.body of the cafe's edit: every key goes into updates = {...req.body}
CafeBodies ==
    [startTime : EditStartTimes, endTime : EditEndTimes,
     requiredEmployees : EditHeadcounts, hourlyRate : EditRates,
     platformFee : EditFees]

\* req.body of the admin's edit: the handler copies the keys it names
AdminBodies ==
    [startTime : EditStartTimes, endTime : EditEndTimes,
     requiredEmployees : EditHeadcounts, baseHourlyRate : EditRates]

\* the cafe's updates: the recomputation uses the stored fee, and the keys of
\* the body that the handler does not overwrite are written as sent
CafeEditBodyApply(doc, body) ==
    LET hourlyRate == IF body.hourlyRate # Undefined THEN body.hourlyRate
                      ELSE doc.baseHourlyRate
        startTime == IF body.startTime # NoTime THEN body.startTime ELSE doc.startTime
        endTime == IF body.endTime # NoTime THEN body.endTime ELSE doc.endTime
        requiredEmployees == IF body.requiredEmployees # Undefined
                             THEN body.requiredEmployees ELSE doc.requiredEmployees
    IN  [doc EXCEPT !.baseHourlyRate = hourlyRate,
                    !.startTime = startTime,
                    !.endTime = endTime,
                    !.requiredEmployees = requiredEmployees,
                    !.totalCost = calculateShiftCostWithFixedFee(startTime, endTime,
                                      hourlyRate, requiredEmployees, doc.platformFee).totalCost,
                    !.platformFee = IF body.platformFee # Undefined
                                    THEN body.platformFee ELSE @]

CafeEditBody(cafe, s, body) ==
    /\ s \in DOMAIN shifts
    /\ IF CafeEditResponse(shifts[s], cafe, body.requiredEmployees, body.hourlyRate) = "200"
       THEN shifts' = [shifts EXCEPT ![s] = CafeEditBodyApply(@, body)]
       ELSE UNCHANGED shifts
    /\ UNCHANGED <<applications, invoices, now, reqs, sweeps, failures, runs, config, payments, posted, quote, limits, calls, grants>>

AdminEditBodyApply(doc, body) ==
    LET baseRate == IF body.baseHourlyRate # Undefined THEN body.baseHourlyRate
                    ELSE doc.baseHourlyRate
        startTime == IF body.startTime # NoTime THEN body.startTime ELSE doc.startTime
        endTime == IF body.endTime # NoTime THEN body.endTime ELSE doc.endTime
        requiredEmployees == IF body.requiredEmployees # Undefined
                             THEN body.requiredEmployees ELSE doc.requiredEmployees
    IN  [doc EXCEPT !.baseHourlyRate = baseRate,
                    !.startTime = startTime,
                    !.endTime = endTime,
                    !.requiredEmployees = requiredEmployees,
                    !.totalCost = calculateShiftCostWithFixedFee(startTime, endTime,
                                      baseRate, requiredEmployees, doc.platformFee).totalCost]

AdminEditBody(s, body) ==
    /\ s \in DOMAIN shifts
    /\ IF AdminEditResponse(shifts[s]) = "200"
       THEN shifts' = [shifts EXCEPT ![s] = AdminEditBodyApply(@, body)]
       ELSE UNCHANGED shifts
    /\ UNCHANGED <<applications, invoices, now, reqs, sweeps, failures, runs, config, payments, posted, quote, limits, calls, grants>>

\* The cafe has used its free shifts: two earlier shifts, both cancelled.
EarlierShift(s) ==
    [NewShift(OwnerCafe, ShiftPlan(s), 1, basePriceTier24Plus, 0, 0)
        EXCEPT !.status = "cancelled"]

InitEdit ==
    /\ shifts = ("s3" :> EarlierShift("s3")) @@ ("s4" :> EarlierShift("s4"))
    /\ applications = <<>>
    /\ invoices = {}
    /\ now = 0
    /\ reqs = [q \in ReqIds |-> IdleReq]
    /\ sweeps = [r \in Runners |-> IdleSweep]
    /\ failures = 0
    /\ runs = 0
    /\ config = DefaultConfig
    /\ payments = {}
    /\ posted = History(shifts)
    /\ quote = NoQuote
    /\ limits = NoLimits
    /\ calls = [c \in Callers |-> IdleCall]
    /\ grants = NoGrants

NextEdit ==
    \/ \E s \in LifecycleShifts, n \in Headcounts : CreateShift(s, n, Undefined)
    \/ \E s \in LifecycleShifts : AdminApprove(s, Undefined)
    \/ \E e \in Employees, s \in LifecycleShifts : Accept(e, s)
    \/ \E s \in LifecycleShifts, body \in CafeBodies : CafeEditBody(OwnerCafe, s, body)
    \/ \E s \in LifecycleShifts, body \in AdminBodies : AdminEditBody(s, body)

SpecEdit == InitEdit /\ [][NextEdit]_vars

HeadcountKept ==
    \A s \in DOMAIN shifts :
        shifts'[s].requiredEmployees # shifts[s].requiredEmployees
            => shifts'[s].requiredEmployees >= Len(shifts[s].acceptedBy)

\* C21: no step sets a shift's requiredEmployees to a value below the number
\* of employees in its acceptedBy; an edit that asks for it leaves the shift
\* as it was.
C21_HeadcountNotBelowAccepted == [][HeadcountKept]_vars

----------------------------------------------------------------------------
(* The stored cost of a shift *)

\* the fee computed when the shift was posted: the cafe of InitEdit has used
\* its free shifts, so every shift posted afterwards carries the fixed fee
FeeAtCreation(s) == IF s \in LifecycleShifts THEN platformFeePerShift ELSE 0

ExpectedCost(doc, fee) ==
    RoundDiv(getMinutesFromShift(doc.startTime, doc.endTime)
             * doc.baseHourlyRate * doc.requiredEmployees, 60) + fee

\* C22: every stored shift, after its creation and after every cafe or admin
\* edit, has totalCost = hours x baseHourlyRate x requiredEmployees +
\* the platform fee fixed at its creation.
C22_CostDerivable ==
    \A s \in DOMAIN shifts :
        shifts[s].totalCost = ExpectedCost(shifts[s], FeeAtCreation(s))

----------------------------------------------------------------------------
(* The payment window of the manual completion *)

\* s1 ends at 3660; 48 hours later is 6540
CompleteTimes == {0, 3600, 3660, 6540, 6599, 6600}

NextComplete ==
    \/ \E t \in CompleteTimes : Tick(t)
    \/ \E s \in ShiftIds, n \in Headcounts : CreateShift(s, n, Undefined)
    \/ \E s \in ShiftIds : AdminApprove(s, Undefined)
    \/ \E e \in Employees, s \in ShiftIds : Accept(e, s)
    \/ \E s \in ShiftIds, file \in BOOLEAN : Complete(OwnerCafe, s, file)

SpecComplete == Init /\ [][NextComplete]_vars

MinutesSinceEnd(doc, t) == t - DateTime(doc.date, doc.endTime)

CompletedInWindow ==
    \A s \in DOMAIN shifts :
        (shifts[s].status # "completed" /\ shifts'[s].status = "completed")
            => /\ MinutesSinceEnd(shifts[s], now) >= 0
               /\ MinutesSinceEnd(shifts[s], now) <= PAYMENT_WINDOW_HOURS * 60
               /\ shifts'[s].paymentProof

\* C23: the cafe's manual completion moves a shift to completed only when
\* the shift's end has passed, at most 48 hours have elapsed since the end,
\* and a payment proof is attached; otherwise the shift is left as it was.
C23_CompletedInWindow == [][CompletedInWindow]_vars

----------------------------------------------------------------------------
(* Late-withdrawal and pause penalties *)

Within24Hours(doc, t) == MinutesUntilStart(doc, t) > 0 /\ MinutesUntilStart(doc, t) <= 24 * 60

EffectiveRate(doc) ==
    IF doc.employeeHourlyRate # Undefined THEN doc.employeeHourlyRate ELSE doc.baseHourlyRate

ExpectedEmployeePenalty(doc) ==
    RoundDiv(getMinutesFromShift(doc.startTime, doc.endTime) * EffectiveRate(doc)
             * EMPLOYEE_PENALTY_PERCENTAGE, 60 * 100)

WithdrawalPenalty ==
    \A e \in Employees, s \in DOMAIN shifts :
        (EmployeeCancel(e, s) /\ Contains(shifts[s].acceptedBy, e)) =>
            /\ ~Contains(shifts'[s].acceptedBy, e)
            /\ IF Within24Hours(shifts[s], now) /\ ~IsSameDayPost(shifts[s], now)
               THEN /\ shifts'[s].employeePenaltyApplied
                    /\ shifts'[s].employeePenaltyAmount = ExpectedEmployeePenalty(shifts[s])
               ELSE /\ shifts'[s].employeePenaltyApplied = shifts[s].employeePenaltyApplied
                    /\ shifts'[s].employeePenaltyAmount = shifts[s].employeePenaltyAmount

\* C24: an accepted employee's own withdrawal removes them from acceptedBy;
\* it stores the employee penalty round2(hours x effective rate x percent /
\* 100) when the start is at most 24 hours away and the shift was not posted
\* same-day, and leaves the employee penalty fields alone otherwise.
C24_WithdrawalPenalty == [][WithdrawalPenalty]_vars

PausePenalty ==
    \A s \in DOMAIN shifts :
        (Pause(OwnerCafe, s) /\ shifts[s].cafe = OwnerCafe) =>
            /\ IF /\ Len(shifts[s].acceptedBy) >= 1
                  /\ MinutesUntilStart(shifts[s], now) <= 24 * 60
                  /\ ~IsSameDayPost(shifts[s], now)
               THEN /\ shifts'[s].penaltyApplied
                    /\ shifts'[s].penaltyAmount
                          = calculatePenalty(shifts[s].totalCost, PENALTY_PERCENTAGE)
               ELSE /\ shifts'[s].penaltyApplied = shifts[s].penaltyApplied
                    /\ shifts'[s].penaltyAmount = shifts[s].penaltyAmount
            /\ shifts'[s].employeePenaltyApplied = shifts[s].employeePenaltyApplied
            /\ shifts'[s].employeePenaltyAmount = shifts[s].employeePenaltyAmount

\* C25: a cafe's pause stores the cafe penalty round2(totalCost x percent /
\* 100) with penaltyApplied = true when the shift has an accepted employee,
\* the start is at most 24 hours away and the shift was not posted same-day;
\* otherwise it leaves the cafe penalty fields alone.  It never changes the
\* employee penalty fields.
C25_PausePenalty == [][PausePenalty]_vars

----------------------------------------------------------------------------
(* PUT /api/admin/platform-config  (routes/admin.ts) and the tier floors *)

TierPrices == {Undefined, 1400, 1700}

\* req.body: each key is optional and validated on its own (isFloat min 0)
ConfigBodies ==
    [basePriceTier3to12 : TierPrices, basePriceTier12to24 : TierPrices,
     basePriceTier24Plus : TierPrices]

\* findOneAndUpdate({key: 'platform'}, {$set: updateData}, {upsert: true})
PutPlatformConfig(body) ==
    /\ config' = [k \in DOMAIN config |->
                     IF k \in DOMAIN body /\ body[k] # Undefined THEN body[k] ELSE config[k]]
    /\ UNCHANGED <<shifts, applications, invoices, now, reqs, sweeps, failures, runs,
                   payments, posted, quote, limits, calls, grants>>

\* s1 starts at 3420: posted at 1920 it is 25 hours ahead, at 2000 under 24,
\* at 2820 10 hours ahead
PricingTimes == {0, 1920, 2000, 2820}

NextPricing ==
    \/ \E t \in PricingTimes : Tick(t)
    \/ \E body \in ConfigBodies : PutPlatformConfig(body)
    \/ \E s \in ShiftIds : CreateShift(s, 1, Undefined)

SpecPricing == Init /\ [][NextPricing]_vars

DefaultRateIsTierFloor ==
    \A s \in ShiftIds :
        (s \notin DOMAIN shifts /\ s \in DOMAIN shifts') =>
            LET lead == MinutesUntilStart(shifts'[s], now) IN
            shifts'[s].baseHourlyRate =
                IF lead < 12 * 60 THEN config.basePriceTier3to12
                ELSE IF lead < 24 * 60 THEN config.basePriceTier12to24
                ELSE config.basePriceTier24Plus

TenHoursDearerThanThirty == TierBasePrice(10 * 60) > TierBasePrice(30 * 60)

\* C26: a shift created without a rate gets the tier floor of its lead time
\* (under 12 hours, 12 to 24 hours, 24 hours and more), and under every
\* stored configuration the floor for 10 hours ahead is strictly greater
\* than the floor for 30 hours ahead.
C26_DefaultRateByTier == [][DefaultRateIsTierFloor]_vars /\ []TenHoursDearerThanThirty

----------------------------------------------------------------------------
(* Cafe-set rates and the tier floor *)

CafeRates == {Undefined, 1400, 1600, 1700}

NextRate ==
    \/ \E t \in PricingTimes : Tick(t)
    \/ \E s \in ShiftIds, rate \in CafeRates : CreateShift(s, 1, rate)
    \/ \E s \in ShiftIds, rate \in CafeRates : CafeEdit(OwnerCafe, s, Undefined, rate)

SpecRate == Init /\ [][NextRate]_vars

\* the floor of the tier the shift was posted in
FloorAtPosting(doc) ==
    LET lead == DateTime(doc.date, doc.startTime) - doc.createdAt IN
    IF lead < 12 * 60 THEN basePriceTier3to12
    ELSE IF lead < 24 * 60 THEN basePriceTier12to24
    ELSE basePriceTier24Plus

\* C27: a create with a custom rate below the tier floor of its lead time is
\* rejected, and every stored shift, also after cafe edits of the rate, has
\* baseHourlyRate >= the floor of the tier it was posted in.
C27_RateNotBelowFloor ==
    /\ \A s \in ShiftIds, rate \in CafeRates \ {Undefined} :
          rate < TierBasePrice(DateTime(ShiftPlan(s).date, ShiftPlan(s).startTime) - now)
             => CreateShiftResponse(s, rate, now) # "201"
    /\ \A s \in DOMAIN shifts : shifts[s].baseHourlyRate >= FloorAtPosting(shifts[s])

----------------------------------------------------------------------------
(* DELETE /api/shifts/:id and the waived platform fee *)

DeleteShiftResponse(doc, cafe) == IF doc.cafe # cafe THEN "Not authorized" ELSE "200"

\* Shift.deleteOne({_id, cafe}); the penalty saved just before goes with it
DeleteShift(cafe, s) ==
    /\ s \in DOMAIN shifts
    /\ IF DeleteShiftResponse(shifts[s], cafe) = "200"
       THEN shifts' = [x \in DOMAIN shifts \ {s} |-> shifts[x]]
       ELSE UNCHANGED shifts
    /\ UNCHANGED <<applications, invoices, now, reqs, sweeps, failures, runs, config,
                   payments, posted, quote, limits, calls, grants>>

NextFee ==
    \/ \E t \in PricingTimes : Tick(t)
    \/ \E s \in ConflictShifts : CreateShift(s, 1, Undefined)
    \/ \E c \in Cafes, s \in ConflictShifts : DeleteShift(c, s)

SpecFee == Init /\ [][NextFee]_vars

\* C28: of all the shifts the cafe ever created at most freeShiftsPerCafe
\* carry platformFee = 0, and every other one carries the per-shift fee.
C28_FreeShiftsOnlyFirstN ==
    /\ Cardinality({p \in posted : p.platformFee = 0}) <= freeShiftsPerCafe
    /\ \A p \in posted : p.platformFee \in {0, platformFeePerShift}

----------------------------------------------------------------------------
(* POST /api/admin/employee-payments/mark-week-paid  (routes/admin.ts) *)

\* getStartOfWeek: the Monday of the date's week (day 0 is a Monday)
getStartOfWeek(d) == d - (d % 7)
getEndOfWeek(d) == getStartOfWeek(d) + 6

\* Shift.find({status: 'completed', date: {$gte, $lte}, acceptedBy: {$in}})
\* filtered to one employee
CompletedShiftsOf(all, e, weekStart) ==
    {s \in DOMAIN all :
        /\ all[s].status = "completed"
        /\ all[s].date >= weekStart /\ all[s].date <= getEndOfWeek(weekStart)
        /\ Contains(all[s].acceptedBy, e)}

RECURSIVE SumMinuteRates(_, _)
SumMinuteRates(all, S) ==
    IF S = {} THEN 0
    ELSE LET s == CHOOSE x \in S : TRUE
             rate == IF all[s].employeeHourlyRate # Undefined
                     THEN all[s].employeeHourlyRate ELSE all[s].baseHourlyRate
         IN  getMinutesFromShift(all[s].startTime, all[s].endTime) * rate
             + SumMinuteRates(all, S \ {s})

\* amount += hours * rate; Math.round(amount * 100) / 100
WeekAmount(all, S) == RoundDiv(SumMinuteRates(all, S), 60)

NewWeekPayment(all, e, weekStart) ==
    [employee |-> e, weekStart |-> weekStart, status |-> "paid",
     amount |-> WeekAmount(all, CompletedShiftsOf(all, e, weekStart)),
     shiftIds |-> CompletedShiftsOf(all, e, weekStart)]

\* findOneAndUpdate({employee, weekStart}, {...}, {upsert: true})
Upsert(recs, rec) ==
    {r \in recs : ~(r.employee = rec.employee /\ r.weekStart = rec.weekStart)} \cup {rec}

MarkWeekPaidResponse(file, employeeIds) ==
    IF ~file THEN "Proof of payment file is required"
    ELSE IF employeeIds = {} THEN "At least one employee ID is required"
    ELSE "200"

RECURSIVE MarkEach(_, _, _, _)
MarkEach(recs, all, employeeIds, weekStart) ==
    IF employeeIds = {} THEN recs
    ELSE LET e == CHOOSE x \in employeeIds : TRUE
             next == IF CompletedShiftsOf(all, e, weekStart) = {} THEN recs
                     ELSE Upsert(recs, NewWeekPayment(all, e, weekStart))
         IN  MarkEach(next, all, employeeIds \ {e}, weekStart)

MarkWeekPaid(day, employeeIds, file) ==
    /\ IF MarkWeekPaidResponse(file, employeeIds) = "200"
       THEN payments' = MarkEach(payments, shifts, employeeIds, getStartOfWeek(day))
       ELSE UNCHANGED payments
    /\ UNCHANGED <<shifts, applications, invoices, now, reqs, sweeps, failures, runs,
                   config, posted, quote, limits, calls, grants>>

\* dates sent as weekStart: a day of the shifts' week and a day of the next
WeekDays == {2, 7}
PaymentShifts == {"s1", "s4"}
PaymentTimes == {0, 3660, 6540}

\* Two approved shifts of one week, on different days, open for claims.
InitPayments ==
    /\ \E n \in Headcounts :
          shifts = ("s1" :> OpenShift("s1", n)) @@ ("s4" :> OpenShift("s4", n))
    /\ applications = <<>>
    /\ invoices = {}
    /\ now = 0
    /\ reqs = [q \in ReqIds |-> IdleReq]
    /\ sweeps = [r \in Runners |-> IdleSweep]
    /\ failures = 0
    /\ runs = 0
    /\ config = DefaultConfig
    /\ payments = {}
    /\ posted = History(shifts)
    /\ quote = NoQuote
    /\ limits = NoLimits
    /\ calls = [c \in Callers |-> IdleCall]
    /\ grants = NoGrants

NextPayments ==
    \/ \E t \in PaymentTimes : Tick(t)
    \/ \E e \in Employees, s \in PaymentShifts : Accept(e, s)
    \/ \E s \in PaymentShifts, file \in BOOLEAN : Complete(OwnerCafe, s, file)
    \/ \E day \in WeekDays, ids \in SUBSET Employees, file \in BOOLEAN :
          MarkWeekPaid(day, ids, file)

SpecPayments == InitPayments /\ [][NextPayments]_vars

\* C29: every EmployeeWeekPayment record, at every time after it is written,
\* has shiftIds equal to the completed shifts of its employee in its week
\* and amount equal to the sum of hours x effective rate over them.
C29_WeekPaymentCurrent ==
    \A r \in payments :
        /\ r.shiftIds = CompletedShiftsOf(shifts, r.employee, r.weekStart)
        /\ r.amount = WeekAmount(shifts, CompletedShiftsOf(shifts, r.employee, r.weekStart))

----------------------------------------------------------------------------
(* mark-week-paid for one employee, one await at a time *)

ProofRequired == "Proof of payment file is required (image or PDF)"

\* mutation of the collection: no unique index on (employee, weekStart)
NoPaymentIndex(recs, e, weekStart) == FALSE

\* EmployeeWeekPaymentSchema.index({employee: 1, weekStart: 1}, {unique: true})
PaymentDuplicateKey(recs, e, weekStart) ==
    \E r \in recs : r.employee = e /\ r.weekStart = weekStart

PaymentsOf(recs, e, weekStart) ==
    {r \in recs : r.employee = e /\ r.weekStart = weekStart}

\* the handler up to the result of await Shift.find(...) and the amount and
\* shiftIds computed from it
MarkBegin(q, day, e, file) ==
    /\ reqs[q].pc = "idle"
    /\ LET computed == NewWeekPayment(shifts, e, getStartOfWeek(day))
           rec == [IdleReq EXCEPT !.op = "mark", !.employee = e, !.snap = computed]
       IN  reqs' = [reqs EXCEPT ![q] =
                       IF MarkWeekPaidResponse(file, {e}) # "200" THEN Answer(rec, ProofRequired)
                       ELSE IF computed.shiftIds = {} THEN Answer(rec, "200")
                       ELSE [rec EXCEPT !.pc = "match"]]
    /\ UNCHANGED <<shifts, applications, invoices, now, sweeps, failures, runs, config,
                   payments, posted, quote, limits, calls, grants>>

\* findOneAndUpdate, the query part: a matching document or none
MarkMatch(q) ==
    /\ reqs[q].pc = "match"
    /\ reqs[q].op = "mark"
    /\ LET rec == reqs[q] IN
       reqs' = [reqs EXCEPT ![q] =
                   IF PaymentsOf(payments, rec.employee, rec.snap.weekStart) # {}
                   THEN [rec EXCEPT !.pc = "update"]
                   ELSE [rec EXCEPT !.pc = "insert"]]
    /\ UNCHANGED <<shifts, applications, invoices, now, sweeps, failures, runs, config,
                   payments, posted, quote, limits, calls, grants>>

\* findOneAndUpdate, the matched document is updated
MarkUpdate(q) ==
    /\ reqs[q].pc = "update"
    /\ reqs[q].op = "mark"
    /\ payments' = Upsert(payments, reqs[q].snap)
    /\ reqs' = [reqs EXCEPT ![q] = Answer(reqs[q], "200")]
    /\ UNCHANGED <<shifts, applications, invoices, now, sweeps, failures, runs, config, posted, quote, limits, calls, grants>>

\* findOneAndUpdate with upsert: true, no document matched: insert. When
\* another request inserted the pair meanwhile the unique index refuses the
\* insert; the server retries the operation as an update, or the driver
\* reports E11000 and the handler's catch answers 500.
MarkInsert(q) ==
    /\ reqs[q].pc = "insert"
    /\ reqs[q].op = "mark"
    /\ LET rec == reqs[q] IN
       IF PaymentDuplicateKey(payments, rec.employee, rec.snap.weekStart)
       THEN \/ /\ payments' = Upsert(payments, rec.snap)
               /\ reqs' = [reqs EXCEPT ![q] = Answer(rec, "200")]
            \/ /\ UNCHANGED payments
               /\ reqs' = [reqs EXCEPT ![q] = Answer(rec, "500")]
       ELSE /\ payments' = payments \cup {rec.snap}
            /\ reqs' = [reqs EXCEPT ![q] = Answer(rec, "200")]
    /\ UNCHANGED <<shifts, applications, invoices, now, sweeps, failures, runs, config, posted, quote, limits, calls, grants>>

MarkEmployees == {"e1"}
MarkTimes == {0, 6540}

NextMark ==
    \/ \E t \in MarkTimes : Tick(t)
    \/ \E e \in MarkEmployees, s \in PaymentShifts : Accept(e, s)
    \/ \E s \in PaymentShifts : Complete(OwnerCafe, s, TRUE)
    \/ \E q \in ReqIds, day \in WeekDays, e \in MarkEmployees, file \in BOOLEAN :
          MarkBegin(q, day, e, file)
    \/ \E q \in ReqIds : MarkMatch(q)
    \/ \E q \in ReqIds : MarkUpdate(q)
    \/ \E q \in ReqIds : MarkInsert(q)
    \/ \E q \in ReqIds : Respond(q)

SpecMark == InitPayments /\ [][NextMark]_vars

OnePaymentPerPair ==
    \A r1 \in payments, r2 \in payments :
        (r1.employee = r2.employee /\ r1.weekStart = r2.weekStart) => r1 = r2

AllPaid == \A r \in payments : r.status = "paid"

\* a request without a file is refused and changes no record
RefusedWithoutFile ==
    \A q \in ReqIds, day \in WeekDays, e \in MarkEmployees :
        MarkBegin(q, day, e, FALSE) =>
            /\ payments' = payments
            /\ reqs'[q].pc = "done"
            /\ reqs'[q].resp = ProofRequired

\* a request computes its record from the completed shifts it reads
ComputedFromRead ==
    \A q \in ReqIds, day \in WeekDays, e \in MarkEmployees :
        MarkBegin(q, day, e, TRUE) =>
            \/ reqs'[q].pc = "done" /\ CompletedShiftsOf(shifts, e, getStartOfWeek(day)) = {}
            \/ /\ reqs'[q].pc = "match"
               /\ reqs'[q].snap.shiftIds = CompletedShiftsOf(shifts, e, getStartOfWeek(day))
               /\ reqs'[q].snap.amount = WeekAmount(shifts, reqs'[q].snap.shiftIds)

\* a marking that is answered 200 after its write leaves exactly the record
\* it computed for its pair
WriterRecordStored ==
    \A q \in ReqIds :
        (/\ reqs[q].op = "mark"
         /\ reqs[q].pc \in {"update", "insert"}
         /\ reqs'[q].pc = "done"
         /\ reqs'[q].resp = "200")
        => PaymentsOf(payments', reqs[q].employee, reqs[q].snap.weekStart) = {reqs[q].snap}

----------------------------------------------------------------------------
(* utils/calculateShiftCost.ts calculateShiftCost (percentage fee) *)

\* mutation of Math.round: Math.floor
FloorOutcomes(num, den) == {num \div den}

\* Math.round(x * 100) for x * 100 = num / den computed in doubles: the
\* nearest integer; when num / den is exactly half way between two integers
\* the double product lies on either side of the half
RoundOutcomes(num, den) ==
    IF (2 * num) % (2 * den) = den THEN {num \div den, num \div den + 1}
    ELSE {RoundDiv(num, den)}

\* the three returned amounts in pence, for a rate in pence
calculateShiftCost(startTime, endTime, baseHourlyRate, platformFeePercentage, requiredEmployees) ==
    LET totalMinutes == ToMinutes(endTime) - ToMinutes(startTime)
        \* baseAmount * 100 = base60 / 60
        base60 == totalMinutes * baseHourlyRate * requiredEmployees
    IN  {[baseAmount |-> b, platformFee |-> f, totalCost |-> c] :
            b \in RoundOutcomes(base60, 60),
            f \in RoundOutcomes(base60 * platformFeePercentage, 6000),
            c \in RoundOutcomes(base60 * (100 + platformFeePercentage), 6000)}

CostStartTimes == {<<9, 0>>, <<9, 15>>}
CostEndTimes == {<<9, 30>>, <<13, 0>>, <<17, 0>>}
CostRates == {1400, 1600, 1601, 1700}
CostFeePercentages == {0, 10, 15}
CostHeadcounts == {1, 2, 3}

InitCost ==
    /\ shifts = [s \in {} |-> 0]
    /\ applications = <<>>
    /\ invoices = {}
    /\ now = 0
    /\ reqs = [q \in ReqIds |-> IdleReq]
    /\ sweeps = [r \in Runners |-> IdleSweep]
    /\ failures = 0
    /\ runs = 0
    /\ config = DefaultConfig
    /\ payments = {}
    /\ posted = {}
    /\ quote = NoQuote
    /\ limits = NoLimits
    /\ calls = [c \in Callers |-> IdleCall]
    /\ grants = NoGrants

\* one call of calculateShiftCost with same-day start < end
Calculate(startTime, endTime, rate, pct, n) ==
    /\ ToMinutes(startTime) < ToMinutes(endTime)
    /\ \E r \in calculateShiftCost(startTime, endTime, rate, pct, n) :
          quote' = [args |-> <<startTime, endTime, rate, pct, n>>, result |-> r]
    /\ UNCHANGED <<shifts, applications, invoices, now, reqs, sweeps, failures, runs,
                   config, payments, posted, limits, calls, grants>>

NextCost ==
    \E st \in CostStartTimes, en \in CostEndTimes, rate \in CostRates,
       pct \in CostFeePercentages, n \in CostHeadcounts : Calculate(st, en, rate, pct, n)

SpecCost == InitCost /\ [][NextCost]_vars

\* v is num / den rounded to a whole number of pence
NearestTo(v, num, den) == 2 * (v * den - num) <= den /\ 2 * (num - v * den) <= den

----------------------------------------------------------------------------
(* Approval of a new shift *)

PendingUnstaffed ==
    \A s \in DOMAIN shifts :
        shifts[s].status = "pending_approval" => shifts[s].acceptedBy = <<>>

LeavesPendingByApprove ==
    \A s \in DOMAIN shifts :
        (/\ shifts[s].status = "pending_approval"
         /\ s \in DOMAIN shifts'
         /\ shifts'[s].status # "pending_approval")
        => /\ shifts'[s].status = "open"
           /\ AdminApprove(s, Undefined)

\* C32: a shift is created in pending_approval and leaves that status only
\* through the admin approve action, which sets it to open; while it is
\* pending_approval its acceptedBy stays empty.
C32_PendingUntilApproved == []PendingUnstaffed /\ [][LeavesPendingByApprove]_vars

----------------------------------------------------------------------------
(* The cafe rejects an assigned employee *)

Occurrences(seq, x) == Cardinality({i \in 1..Len(seq) : seq[i] = x})

RejectionRecorded(s, e, reason) ==
    /\ ~Contains(shifts'[s].acceptedBy, e)
    /\ Occurrences(shifts'[s].blockedEmployees, e) = 1
    /\ Cardinality({i \in 1..Len(applications') :
                       applications'[i].shift = s /\ applications'[i].employee = e}) = 1
    /\ \E i \in 1..Len(applications') :
          /\ applications'[i].shift = s
          /\ applications'[i].employee = e
          /\ applications'[i].status = "rejected"
          /\ applications'[i].rejectionReason = reason

ReopenedWhenShort(s) ==
    Len(shifts'[s].acceptedBy) < shifts'[s].requiredEmployees => shifts'[s].status = "open"

CafeRejectionEffect ==
    \A s \in DOMAIN shifts, e \in Employees :
        CafeRejectEmployee(shifts[s].cafe, s, e, "no-show") =>
            IF Contains(shifts[s].acceptedBy, e) /\ shifts[s].status # "completed"
            THEN RejectionRecorded(s, e, "no-show") /\ ReopenedWhenShort(s)
            ELSE UNCHANGED <<shifts, applications, invoices>>

CafeRejectionRecorded ==
    \A s \in DOMAIN shifts, e \in Employees :
        CafeRejectEmployee(shifts[s].cafe, s, e, "no-show") =>
            IF Contains(shifts[s].acceptedBy, e) /\ shifts[s].status # "completed"
            THEN RejectionRecorded(s, e, "no-show")
            ELSE UNCHANGED <<shifts, applications, invoices>>

\* C33: a cafe's rejection of an accepted employee from a not-completed shift
\* removes the employee from acceptedBy, puts them once into blockedEmployees,
\* leaves exactly one Application of the pair, rejected with the given reason,
\* and sets the shift to open when acceptedBy is now shorter than
\* requiredEmployees; a rejection of an employee who is not assigned, or on a
\* completed shift, changes nothing.
C33_CafeRejection == [][CafeRejectionEffect]_vars

----------------------------------------------------------------------------
(* Invoice approval workflow: PUT /api/admin/invoices/:id,                 *)
(* PUT /api/admin/invoices/:id/reject-proof, POST /api/invoices/:id/submit-proof *)

SubmitProofResponse(inv, cafe, file) ==
    IF shifts[inv.shift].cafe # cafe THEN "Not authorized"
    ELSE IF inv.status # "approved"
    THEN "Payment proof can only be submitted for invoices that are approved"
    ELSE IF ~file THEN "Payment proof file is required"
    ELSE "200"

SubmitProof(cafe, inv, file) ==
    /\ inv \in invoices
    /\ IF SubmitProofResponse(inv, cafe, file) = "200"
       THEN invoices' = (invoices \ {inv}) \cup
                {[inv EXCEPT !.paymentProof = TRUE, !.status = "pending_verification"]}
       ELSE UNCHANGED invoices
    /\ UNCHANGED <<shifts, applications, now, reqs, sweeps, failures, runs, config,
                   payments, posted, quote, limits, calls, grants>>

RejectProofResponse(inv) ==
    IF inv.status # "pending_verification"
    THEN "Only invoices with submitted proof can be rejected"
    ELSE "200"

RejectProof(inv) ==
    /\ inv \in invoices
    /\ IF RejectProofResponse(inv) = "200"
       THEN invoices' = (invoices \ {inv}) \cup {[inv EXCEPT !.status = "approved"]}
       ELSE UNCHANGED invoices
    /\ UNCHANGED <<shifts, applications, now, reqs, sweeps, failures, runs, config,
                   payments, posted, quote, limits, calls, grants>>

\* a completed shift and the invoice the workflow starts from
CompletedShift(s) ==
    [OpenShift(s, 1) EXCEPT !.acceptedBy = <<"e1">>, !.status = "completed",
                            !.paymentProof = TRUE]
DraftInvoice(s) == NewInvoice(s, CompletedShift(s), 1, 1, "draft")

InitWorkflow ==
    /\ shifts = [s \in ShiftIds |-> CompletedShift(s)]
    /\ applications = <<>>
    /\ invoices = {DraftInvoice(s) : s \in ShiftIds}
    /\ now = 0
    /\ reqs = [q \in ReqIds |-> IdleReq]
    /\ sweeps = [r \in Runners |-> IdleSweep]
    /\ failures = 0
    /\ runs = 0
    /\ config = DefaultConfig
    /\ payments = {}
    /\ posted = History(shifts)
    /\ quote = NoQuote
    /\ limits = NoLimits
    /\ calls = [c \in Callers |-> IdleCall]
    /\ grants = NoGrants

WorkflowFees == {Undefined, 1000}
WorkflowPenalties == {Undefined, 2800}

NextWorkflow ==
    \/ \E inv \in invoices, fee \in WorkflowFees, penalty \in WorkflowPenalties,
          status \in InvoiceStatusUpdates : AdminEditInvoice(inv, fee, penalty, status)
    \/ \E c \in Cafes, inv \in invoices, file \in BOOLEAN : SubmitProof(c, inv, file)
    \/ \E inv \in invoices : RejectProof(inv)

SpecWorkflow == InitWorkflow /\ [][NextWorkflow]_vars

WorkflowEdges ==
    {<<"draft", "approved">>, <<"approved", "pending_verification">>,
     <<"pending_verification", "paid">>, <<"pending_verification", "approved">>}

StatusAlongEdges ==
    \A old \in invoices, new \in invoices' :
        (old.shift = new.shift /\ old.status # new.status) =>
            /\ <<old.status, new.status>> \in WorkflowEdges
            /\ old.status # "paid"

\* who moves the status: the admin update approves and marks paid, the
\* cafe's proof submission moves approved to pending_verification, the
\* admin's proof rejection moves it back
StatusMovedBy ==
    \A old \in invoices, new \in invoices' :
        (old.shift = new.shift /\ old.status # new.status) =>
            CASE new.status = "pending_verification" ->
                    SubmitProof(shifts[old.shift].cafe, old, TRUE)
              [] new.status = "paid" ->
                    \E fee \in WorkflowFees, penalty \in WorkflowPenalties :
                        AdminEditInvoice(old, fee, penalty, "paid")
              [] old.status = "draft" ->
                    \E fee \in WorkflowFees, penalty \in WorkflowPenalties :
                        AdminEditInvoice(old, fee, penalty, "approved")
              [] OTHER -> RejectProof(old)

PaidHasPaidAt == \A inv \in invoices : inv.status = "paid" => inv.paidAt

----------------------------------------------------------------------------
(* Minimum lead time of a new shift *)

\* s1 starts at 3420 and s3 at 3660: 25 hours, 24 hours 1 minute and
\* 10 hours before s1, and after s1's start and an hour before s3's
LeadTimes == {1920, 1979, 2820, 3600}
LeadShifts == {"s1", "s3"}
LeadBodies == [minimumHoursBeforeShift : {0, 3, 25}]

NextLead ==
    \/ \E t \in LeadTimes : Tick(t)
    \/ \E body \in LeadBodies : PutPlatformConfig(body)
    \/ \E s \in LeadShifts : CreateShift(s, 1, Undefined)

SpecLead == Init /\ [][NextLead]_vars

StartOf(s) == ShiftPlan(s).date * 1440 + ShiftPlan(s).startTime[1] * 60
              + ShiftPlan(s).startTime[2]

TooLate(s) == StartOf(s) - now < config.minimumHoursBeforeShift * 60 \/ StartOf(s) < now

LateCreateRefused ==
    \A s \in LeadShifts :
        (CreateShift(s, 1, Undefined) /\ TooLate(s)) => UNCHANGED <<shifts, posted>>

----------------------------------------------------------------------------
(* Status against headcount *)

\* C36: in every reachable state a shift in status accepted has exactly
\* requiredEmployees employees in acceptedBy and a shift in status open has
\* fewer, also after cafe or admin edits of requiredEmployees on a staffed
\* shift and after removals.
C36_StatusMatchesHeadcount ==
    \A s \in DOMAIN shifts :
        /\ shifts[s].status = "accepted" =>
              Len(shifts[s].acceptedBy) = shifts[s].requiredEmployees
        /\ shifts[s].status = "open" =>
              Len(shifts[s].acceptedBy) < shifts[s].requiredEmployees

----------------------------------------------------------------------------
(* No double booking *)

Live(s) == shifts[s].status \in {"open", "accepted"}

SameDayOverlap(s1, s2) ==
    /\ shifts[s1].date = shifts[s2].date
    /\ shifts[s1].startTime[1] * 60 + shifts[s1].startTime[2]
          < shifts[s2].endTime[1] * 60 + shifts[s2].endTime[2]
    /\ shifts[s2].startTime[1] * 60 + shifts[s2].startTime[2]
          < shifts[s1].endTime[1] * 60 + shifts[s1].endTime[2]

\* C37: in every reachable state no employee is in acceptedBy of two distinct
\* shifts that are both open or accepted, on the same date, with overlapping
\* hours, after any sequence of direct accepts, application acceptances and
\* edits.
C37_NoDoubleBooking ==
    \A e \in Employees, s1 \in DOMAIN shifts, s2 \in DOMAIN shifts :
        (/\ s1 # s2
         /\ Live(s1) /\ Live(s2)
         /\ Contains(shifts[s1].acceptedBy, e)
         /\ Contains(shifts[s2].acceptedBy, e))
        => ~SameDayOverlap(s1, s2)

----------------------------------------------------------------------------
(* An employee once in acceptedBy *)

OnceInAcceptedBy ==
    \A s \in DOMAIN shifts, e \in Employees : Occurrences(shifts[s].acceptedBy, e) <= 1

\* a direct accept that is answered 200 was made by an employee who was not
\* in acceptedBy when the answer was given
SecondAcceptRefused ==
    \A q \in ReqIds :
        (/\ reqs[q].op = "accept"
         /\ reqs[q].pc # "done"
         /\ reqs'[q].pc = "done"
         /\ Contains(shifts[reqs[q].shift].acceptedBy, reqs[q].employee))
        => reqs'[q].resp = "You have already accepted this shift"

\* C38: an employee appears at most once in a shift's acceptedBy in every
\* reachable state, also when the same employee sends two direct accepts for
\* the same shift at the same time; the second is refused with 'You have
\* already accepted this shift'.
C38_AcceptedOnce == []OnceInAcceptedBy /\ [][SecondAcceptRefused]_vars

----------------------------------------------------------------------------
(* Refused requests change nothing *)

FrameFees == {Undefined, 1000}

\* the lifecycle handlers together with the sweep, which creates invoices,
\* and the admin's invoice update
NextFrame ==
    \/ \E t \in LifecycleTimes : Tick(t)
    \/ \E s \in LifecycleShifts : CreateShift(s, 1, Undefined)
    \/ \E s \in LifecycleShifts : AdminApprove(s, Undefined)
    \/ \E e \in Employees, s \in LifecycleShifts : Accept(e, s)
    \/ \E e \in Employees, s \in LifecycleShifts : EmployeeCancel(e, s)
    \/ \E e \in Employees, s \in LifecycleShifts : Apply(e, s)
    \/ \E c \in Cafes, i \in AppIds : ApplicationAccept(c, i)
    \/ \E c \in Cafes, s \in LifecycleShifts : CafeCancel(c, s)
    \/ \E c \in Cafes, s \in LifecycleShifts, file \in BOOLEAN : Complete(c, s, file)
    \/ \E c \in Cafes, s \in LifecycleShifts, e \in Employees :
          CafeRejectEmployee(c, s, e, "no-show")
    \/ \E ms \in Millis : SweepRun(ms)
    \/ \E inv \in invoices, fee \in FrameFees, status \in InvoiceStatusUpdates :
          AdminEditInvoice(inv, fee, Undefined, status)

SpecFrame == Init /\ [][NextFrame]_vars

Records == <<shifts, applications, invoices>>

RefusedLeavesRecords ==
    /\ \A c \in Cafes, s \in DOMAIN shifts, file \in BOOLEAN :
          (Complete(c, s, file) /\ CompleteResponse(shifts[s], c, file, now) # "200")
          => UNCHANGED Records
    /\ \A c \in Cafes, s \in DOMAIN shifts :
          (CafeCancel(c, s) /\ CafeCancelResponse(shifts[s], c, now) # "200")
          => UNCHANGED Records
    /\ \A e \in Employees, s \in DOMAIN shifts :
          (Accept(e, s) /\ AcceptResponse(shifts, s, e) # "200") => UNCHANGED Records
    /\ \A e \in Employees, s \in DOMAIN shifts :
          (EmployeeCancel(e, s) /\ EmployeeCancelResponse(shifts[s], e) # "200")
          => UNCHANGED Records
    /\ \A e \in Employees, s \in DOMAIN shifts :
          (Apply(e, s) /\ ApplyResponse(shifts[s], applications, s, e) # "201")
          => UNCHANGED Records
    /\ \A c \in Cafes, i \in AppIds :
          (ApplicationAccept(c, i)
           /\ ApplicationAcceptResponse(shifts, applications, c, i) # "200")
          => UNCHANGED Records
    /\ \A c \in Cafes, s \in DOMAIN shifts, e \in Employees :
          (CafeRejectEmployee(c, s, e, "no-show")
           /\ CafeRejectEmployeeResponse(shifts[s], c, e) # "200")
          => UNCHANGED Records
    /\ \A inv \in invoices, fee \in FrameFees, status \in InvoiceStatusUpdates :
          (AdminEditInvoice(inv, fee, Undefined, status)
           /\ AdminEditInvoiceResponse(inv, status) # "200")
          => UNCHANGED Records

\* C39: every lifecycle request that is answered with a rejection (wrong
\* status, full shift, window expired, missing proof, not assigned, not
\* authorized) leaves all Shift, Application and Invoice records as they
\* were before the request.
C39_RefusedChangesNothing == [][RefusedLeavesRecords]_vars

\* a completed shift with a paid invoice: a further complete, a cancel by
\* another cafe and the admin's approval of the invoice with a new fee are
\* all refused here
C39_Witness ==
    /\ \E s \in DOMAIN shifts : shifts[s].status = "completed"
    /\ \E inv \in invoices :
          /\ inv.status = "paid"
          /\ inv.platformFee # 1000
          /\ AdminEditInvoiceResponse(inv, "approved") # "200"

----------------------------------------------------------------------------
(* checkRateLimit and getRetriesLeft, one await at a time *)

MAX_PER_DAY == 3

\* getEndOfTodayUTC: 00:00 UTC of the next day
getEndOfTodayUTC(t) == (t \div 1440 + 1) * 1440

Granted(call, retriesLeft) ==
    [call EXCEPT !.pc = "done", !.result = [allowed |-> TRUE, retriesLeft |-> retriesLeft]]

\* history: one more allowed answer for the key on the UTC day of the answer
CountGrant(call) == [grants EXCEPT ![<<call.key, now \div 1440>>] = @ + 1]

\* const now = new Date(); const resetAt = getEndOfTodayUTC(); findOne is sent
CheckBegin(c, k) ==
    /\ calls[c].pc = "idle"
    /\ calls' = [calls EXCEPT ![c] = [IdleCall EXCEPT !.pc = "find", !.key = k, !.at = now]]
    /\ UNCHANGED <<shifts, applications, invoices, now, reqs, sweeps, failures, runs,
                   config, payments, posted, quote, limits, grants>>

\* await RateLimit.findOne({key}) and the synchronous code after it
CheckFind(c) ==
    /\ calls[c].pc = "find"
    /\ LET call == calls[c]
           k == call.key
       IN  IF k \in DOMAIN limits
           THEN LET read == limits[k]
                    doc == IF call.at >= read.resetAt
                           THEN [count |-> 0, resetAt |-> getEndOfTodayUTC(now)]
                           ELSE read
                IN  calls' = [calls EXCEPT ![c] =
                        IF doc.count >= MAX_PER_DAY
                        THEN [call EXCEPT !.pc = "done",
                                          !.result = [allowed |-> FALSE, retriesLeft |-> 0]]
                        ELSE [call EXCEPT !.pc = "save",
                                          !.doc = [doc EXCEPT !.count = @ + 1]]]
           ELSE calls' = [calls EXCEPT ![c] = [call EXCEPT !.pc = "create"]]
    /\ UNCHANGED <<shifts, applications, invoices, now, reqs, sweeps, failures, runs,
                   config, payments, posted, quote, limits, grants>>

\* await RateLimit.create({key, count: 1, resetAt}); key is unique, a second
\* insert of the key throws E11000 out of checkRateLimit. The save that
\* follows a successful create has nothing to write.
CheckCreate(c) ==
    /\ calls[c].pc = "create"
    /\ LET call == calls[c]
           k == call.key
       IN  IF k \in DOMAIN limits
           THEN /\ calls' = [calls EXCEPT ![c] = [call EXCEPT !.pc = "threw"]]
                /\ UNCHANGED <<limits, grants>>
           ELSE /\ limits' = (k :> [count |-> 1, resetAt |-> getEndOfTodayUTC(call.at)])
                             @@ limits
                /\ calls' = [calls EXCEPT ![c] = Granted(call, MAX_PER_DAY - 1)]
                /\ grants' = CountGrant(call)
    /\ UNCHANGED <<shifts, applications, invoices, now, reqs, sweeps, failures, runs,
                   config, payments, posted, quote>>

\* await doc.save(): $set of count (and resetAt) as the call computed them
CheckSave(c) ==
    /\ calls[c].pc = "save"
    /\ LET call == calls[c] IN
       /\ limits' = [limits EXCEPT ![call.key] = call.doc]
       /\ calls' = [calls EXCEPT ![c] = Granted(call, MAX_PER_DAY - call.doc.count)]
       /\ grants' = CountGrant(call)
    /\ UNCHANGED <<shifts, applications, invoices, now, reqs, sweeps, failures, runs,
                   config, payments, posted, quote>>

\* the caller takes the result, or the rejection
CheckReturn(c) ==
    /\ calls[c].pc \in {"done", "threw"}
    /\ calls' = [calls EXCEPT ![c] = IdleCall]
    /\ UNCHANGED <<shifts, applications, invoices, now, reqs, sweeps, failures, runs,
                   config, payments, posted, quote, limits, grants>>

\* getRetriesLeft(key) at instant t
getRetriesLeft(k, t) ==
    IF k \notin DOMAIN limits THEN MAX_PER_DAY
    ELSE IF t >= limits[k].resetAt THEN MAX_PER_DAY
    ELSE IF MAX_PER_DAY - limits[k].count > 0 THEN MAX_PER_DAY - limits[k].count
    ELSE 0

RateTimes == {1920, 3600}
RateKeys == {"k1"}

\* the clock points are a day apart and a call lasts milliseconds: the day
\* changes between calls
DayPasses(t) == (\A c \in Callers : calls[c].pc = "idle") /\ Tick(t)

NextRateLimit ==
    \/ \E t \in RateTimes : DayPasses(t)
    \/ \E c \in Callers, k \in RateKeys : CheckBegin(c, k)
    \/ \E c \in Callers : CheckFind(c)
    \/ \E c \in Callers : CheckCreate(c)
    \/ \E c \in Callers : CheckSave(c)
    \/ \E c \in Callers : CheckReturn(c)

SpecRateLimit == Init /\ [][NextRateLimit]_vars

AtMostMaxPerDay == \A g \in DOMAIN grants : grants[g] <= MAX_PER_DAY

\* a call that starts and answers on the same UTC day
AnswersSameDay(c) ==
    /\ calls[c].pc # "done"
    /\ calls'[c].pc = "done"
    /\ calls[c].at \div 1440 = now \div 1440

RetriesLeftCounts ==
    \A c \in Callers :
        AnswersSameDay(c)
        => IF calls'[c].result.allowed
           THEN calls'[c].result.retriesLeft
                   = MAX_PER_DAY - grants'[<<calls[c].key, now \div 1440>>]
           ELSE grants[<<calls[c].key, now \div 1440>>] >= MAX_PER_DAY

\* C40: for each key checkRateLimit answers allowed at most MAX_PER_DAY (3)
\* times within one UTC day under any interleaving of calls, answers
\* retriesLeft = 3 - (allowed calls so far that day), and allows calls again
\* after the UTC day rolls over.
C40_RateLimit == []AtMostMaxPerDay /\ [][RetriesLeftCounts]_vars

====
